---- MODULE Spec2Model ----
(***************************************************************************)
(* A model of deepsight's batched structured-data layer.                   *)
(*                                                                         *)
(* BoundingBoxes (structures/_bboxes.py) is modelled as a heap of objects  *)
(* that reference coordinate buffers, so that "returns self", "returns a   *)
(* new object" and "mutates a buffer in place" are different outcomes.     *)
(* Coordinates are exact rationals <<numerator, denominator>>: the real    *)
(* arithmetic that the float32 tensors approximate.                        *)
(*                                                                         *)
(* BatchedImages (structures/vision/_batched_images.py) is modelled with   *)
(* tensors as records of shape, dtype, device and nested sequences of      *)
(* entries.                                                                *)
(*                                                                         *)
(* GraphAttention (models/gahoi/_decoder.py and its later version in       *)
(* tasks/hoic/models/gahoi/_decoder.py) is modelled on graphs given by     *)
(* their edge lists, with exact rational node features.                    *)
(*                                                                         *)
(* CrossAttention, DecoderLayer and Decoder of the same two files are      *)
(* modelled with exact attention weights, and with the outputs of the      *)
(* learned sublayers of a decoder layer kept as terms.                     *)
(***************************************************************************)
EXTENDS Integers, Sequences, FiniteSets, TLC

VARIABLES
    objs,    \* the BoundingBoxes objects the caller holds, by reference 1..Len(objs)
    bufs,    \* the coordinate tensors those objects reference
    ret,     \* the last call: method, receiver, arguments and what it returned
    ncalls,  \* number of calls made so far
    limit,   \* number of calls this behaviour makes
    images,  \* the list of image tensors the caller passes to BatchedImages.batch
    batches, \* the BatchedImages structures the caller holds
    graphs,  \* the batched graph the caller passes to a layer of the decoder
    layer,   \* the module called: its configuration and parameters
    frame    \* the other arguments and the local variables of a forward call

vars == <<objs, bufs, ret, ncalls, limit, images, batches, graphs, layer, frame>>

-----------------------------------------------------------------------------
(* Bounds of the model.                                                    *)

\* input coordinates are drawn from the grid -1..MaxCoord
MaxCoord == 2

\* number of calls explored by the specification of call sequences
MaxCalls == 2

-----------------------------------------------------------------------------
(* Exact rational arithmetic: the values of the float tensors.             *)

RECURSIVE GCD(_, _)
GCD(a, b) ==
    IF b = 0 THEN a ELSE GCD(b, a % b)

Abs(a) ==
    IF a < 0 THEN -a ELSE a

\* the rational n/d in lowest terms with a positive denominator (d # 0)
Rat(n, d) ==
    LET g == GCD(Abs(n), Abs(d))
        s == IF d < 0 THEN -1 ELSE 1
    IN  <<s * (n \div g), s * (d \div g)>>

R(n) ==
    <<n, 1>>

RAdd(a, b) ==
    LET g == GCD(a[2], b[2])
    IN  Rat(a[1] * (b[2] \div g) + b[1] * (a[2] \div g), (a[2] \div g) * b[2])

RNeg(a) ==
    <<-a[1], a[2]>>

RSub(a, b) ==
    RAdd(a, RNeg(b))

RMul(a, b) ==
    LET g1 == GCD(Abs(a[1]), b[2])
        g2 == GCD(Abs(b[1]), a[2])
    IN  Rat((a[1] \div g1) * (b[1] \div g2), (a[2] \div g2) * (b[2] \div g1))

\* a / b for b # 0
RDiv(a, b) ==
    RMul(a, Rat(b[2], b[1]))

RLe(a, b) ==
    a[1] * b[2] <= b[1] * a[2]

RMin(a, b) ==
    IF RLe(a, b) THEN a ELSE b

RMax(a, b) ==
    IF RLe(a, b) THEN b ELSE a

\* Tensor.clamp_(min=lo, max=hi)
RClamp(a, lo, hi) ==
    RMin(RMax(a, lo), hi)

-----------------------------------------------------------------------------
(* The heap: BoundingBoxes objects and the coordinate tensors they hold.   *)
(* objs[o] = [buf, format, normalized, image_size]; bufs[b] is an N x 4    *)
(* tensor, a sequence of rows of four rationals.                           *)

BoundingBoxFormat ==
    {"xyxy", "xywh", "cxcywh"}

Heap(os, bs) ==
    [objs |-> os, bufs |-> bs]

\* BoundingBoxes.coordinates
coordinates(h, o) ==
    h.bufs[h.objs[o].buf]

\* _check_coordinates: a 2-dimensional tensor whose last dimension is 4
_check_coordinates(t) ==
    \A i \in 1..Len(t) : Len(t[i]) = 4

\* BoundingBoxes.__init__ on a float tensor that already lives in buffer b:
\* torch.as_tensor(...).float() hands back the same tensor, so the new
\* object references b.  The result is [h, r, err].
BoundingBoxes(h, b, format, normalized, image_size) ==
    IF ~_check_coordinates(h.bufs[b])
    THEN [h |-> h, r |-> 0, err |-> "ValueError"]
    ELSE [h |-> [h EXCEPT !.objs = Append(@, [buf |-> b, format |-> format,
                                           normalized |-> normalized,
                                           image_size |-> image_size])],
          r |-> Len(h.objs) + 1, err |-> "none"]

\* a tensor freshly produced by an out-of-place torch operation
NewTensor(h, t) ==
    [h EXCEPT !.bufs = Append(@, t)]

\* self.__class__(t, ...) where t is the fresh result of a torch operation
Fresh(h, t, format, normalized, image_size) ==
    LET h1 == NewTensor(h, t)
    IN  BoundingBoxes(h1, Len(h1.bufs), format, normalized, image_size)

Same(h, o) ==
    [h |-> h, r |-> o, err |-> "none"]

\* t[..., :2] and t[..., 2:] of one row
Lo(row) ==
    <<row[1], row[2]>>

Hi(row) ==
    <<row[3], row[4]>>

VAdd(u, v) ==
    <<RAdd(u[1], v[1]), RAdd(u[2], v[2])>>

VSub(u, v) ==
    <<RSub(u[1], v[1]), RSub(u[2], v[2])>>

VHalf(u) ==
    <<RDiv(u[1], R(2)), RDiv(u[2], R(2))>>

\* the row-wise map of a tensor
MapRows(t, F(_)) ==
    [i \in 1..Len(t) |-> F(t[i])]

\* the value x bound to a local name: F's parameter
With(x, F(_)) ==
    F(x)

\* the method or constructor F applied to the heap and the object a call returned
Then(a, F(_, _)) ==
    F(a.h, a.r)

-----------------------------------------------------------------------------
(* Conversion methods.                                                     *)

to_xyxy(h, o) ==
    LET self == h.objs[o]
        c == coordinates(h, o)
        FromXywh(row) == LET x1y1 == Lo(row)
                             x2y2 == VAdd(x1y1, Hi(row))
                         IN  x1y1 \o x2y2
        FromCxcywh(row) == LET x1y1 == VSub(Lo(row), VHalf(Hi(row)))
                               x2y2 == VAdd(x1y1, Hi(row))
                           IN  x1y1 \o x2y2
    IN  CASE self.format = "xyxy" -> Same(h, o)
          [] self.format = "xywh" ->
                Fresh(h, MapRows(c, FromXywh), "xyxy", self.normalized, self.image_size)
          [] self.format = "cxcywh" ->
                Fresh(h, MapRows(c, FromCxcywh), "xyxy", self.normalized, self.image_size)

to_xywh(h, o) ==
    LET self == h.objs[o]
        c == coordinates(h, o)
        FromXyxy(row) == LET xy == Lo(row)
                             wh == VSub(Hi(row), xy)
                         IN  xy \o wh
        FromCxcywh(row) == LET xy == VSub(Lo(row), VHalf(Hi(row)))
                               wh == Hi(row)
                           IN  xy \o wh
    IN  CASE self.format = "xyxy" ->
                Fresh(h, MapRows(c, FromXyxy), "xywh", self.normalized, self.image_size)
          [] self.format = "xywh" -> Same(h, o)
          [] self.format = "cxcywh" ->
                Fresh(h, MapRows(c, FromCxcywh), "xywh", self.normalized, self.image_size)

\* fault injection: the center is taken a full width and height from the corner
to_cxcywh_NoHalf(h, o) ==
    LET self == h.objs[o]
        c == coordinates(h, o)
        Center(xy, wh) == VAdd(xy, wh) \o wh
        FromXyxy(row) == Center(Lo(row), VSub(Hi(row), Lo(row)))
        FromXywh(row) == Center(Lo(row), Hi(row))
    IN  CASE self.format = "xyxy" ->
                Fresh(h, MapRows(c, FromXyxy), "cxcywh", self.normalized, self.image_size)
          [] self.format = "xywh" ->
                Fresh(h, MapRows(c, FromXywh), "cxcywh", self.normalized, self.image_size)
          [] self.format = "cxcywh" -> Same(h, o)

to_cxcywh(h, o) ==
    LET self == h.objs[o]
        c == coordinates(h, o)
        Center(xy, wh) == VAdd(xy, VHalf(wh)) \o wh
        FromXyxy(row) == Center(Lo(row), VSub(Hi(row), Lo(row)))
        FromXywh(row) == Center(Lo(row), Hi(row))
    IN  CASE self.format = "xyxy" ->
                Fresh(h, MapRows(c, FromXyxy), "cxcywh", self.normalized, self.image_size)
          [] self.format = "xywh" ->
                Fresh(h, MapRows(c, FromXywh), "cxcywh", self.normalized, self.image_size)
          [] self.format = "cxcywh" -> Same(h, o)

\* torch.tensor([W, H, W, H]) for image_size = (H, W)
WHWH(image_size) ==
    <<R(image_size[2]), R(image_size[1]), R(image_size[2]), R(image_size[1])>>

\* fault injection: a normalized receiver is copied instead of returned
normalize_Copying(h, o) ==
    LET self == h.objs[o]
        norm_factor == WHWH(self.image_size)
        Scale(row) == [k \in 1..4 |-> RDiv(row[k], norm_factor[k])]
    IN  IF self.normalized
        THEN Fresh(h, coordinates(h, o), self.format, TRUE, self.image_size)
        ELSE Fresh(h, MapRows(coordinates(h, o), Scale), self.format, TRUE, self.image_size)

normalize(h, o) ==
    LET self == h.objs[o]
        norm_factor == WHWH(self.image_size)
        Scale(row) == [k \in 1..4 |-> RDiv(row[k], norm_factor[k])]
    IN  IF self.normalized
        THEN Same(h, o)
        ELSE Fresh(h, MapRows(coordinates(h, o), Scale), self.format, TRUE, self.image_size)

\* fault injection: width and height swapped in the factor
denormalize_Swapped(h, o) ==
    LET self == h.objs[o]
        norm_factor == WHWH(<<self.image_size[2], self.image_size[1]>>)
        Scale(row) == [k \in 1..4 |-> RMul(row[k], norm_factor[k])]
    IN  IF ~self.normalized
        THEN Same(h, o)
        ELSE Fresh(h, MapRows(coordinates(h, o), Scale), self.format, FALSE, self.image_size)

denormalize(h, o) ==
    LET self == h.objs[o]
        norm_factor == WHWH(self.image_size)
        Scale(row) == [k \in 1..4 |-> RMul(row[k], norm_factor[k])]
    IN  IF ~self.normalized
        THEN Same(h, o)
        ELSE Fresh(h, MapRows(coordinates(h, o), Scale), self.format, FALSE, self.image_size)

\* the values of an optional bool argument
OptBool ==
    {"True", "False", "None"}

PyBool(b) ==
    IF b THEN "True" ELSE "False"

\* convert(format, normalized); "None" stands for an argument left out
convert(h, o, format, normalized) ==
    LET MatchNormalized(boxes) ==
            CASE normalized = "True" -> Then(boxes, normalize)
              [] normalized = "False" -> Then(boxes, denormalize)
              [] normalized = "None" -> boxes
    IN  CASE format = "xyxy" -> With(to_xyxy(h, o), MatchNormalized)
          [] format = "xywh" -> With(to_xywh(h, o), MatchNormalized)
          [] format = "cxcywh" -> With(to_cxcywh(h, o), MatchNormalized)
          [] format = "None" -> With(Same(h, o), MatchNormalized)

convert_like(h, o, other) ==
    convert(h, o, h.objs[other].format, PyBool(h.objs[other].normalized))

-----------------------------------------------------------------------------
(* Transform methods.                                                      *)

resize(h, o, image_size) ==
    LET self == h.objs[o]
        height_ratio == Rat(image_size[1], self.image_size[1])
        width_ratio == Rat(image_size[2], self.image_size[2])
        scale_factor == <<width_ratio, height_ratio, width_ratio, height_ratio>>
        Scale(row) == [k \in 1..4 |-> RMul(row[k], scale_factor[k])]
    IN  IF self.image_size = image_size
        THEN Same(h, o)
        ELSE IF self.normalized
             THEN \* coordinates = self.coordinates: the same tensor
                  BoundingBoxes(h, self.buf, self.format, self.normalized, image_size)
             ELSE Fresh(h, MapRows(coordinates(h, o), Scale), self.format,
                        self.normalized, image_size)

\* Tensor.clone(): the copy is the last buffer of the result
clone(h, b) ==
    NewTensor(h, h.bufs[b])

\* an in-place operation on the rows of buffer b
InPlace(h, b, F(_)) ==
    [h EXCEPT !.bufs[b] = MapRows(@, F)]

\* fault injection: the flip works on self.coordinates, without clone()
horizontal_flip_NoClone(h, o) ==
    LET self == h.objs[o]
        W == IF self.normalized THEN R(1) ELSE R(self.image_size[2])
        coords == self.buf
        FlipXyxy(row) == LET t == <<RNeg(RSub(row[1], W)), RNeg(RSub(row[3], W))>>
                         IN  <<t[2], row[2], t[1], row[4]>>
        FlipXywh(row) == <<RNeg(RSub(RAdd(row[1], row[3]), W)), row[2], row[3], row[4]>>
        FlipCxcywh(row) == <<RNeg(RSub(row[1], W)), row[2], row[3], row[4]>>
        h2 == CASE self.format = "xyxy" -> InPlace(h, coords, FlipXyxy)
                [] self.format = "xywh" -> InPlace(h, coords, FlipXywh)
                [] self.format = "cxcywh" -> InPlace(h, coords, FlipCxcywh)
    IN  BoundingBoxes(h2, coords, self.format, self.normalized, self.image_size)

\* fault injection: the flipped x1 and x2 of XYXY boxes are not exchanged
horizontal_flip_Unswapped(h, o) ==
    LET self == h.objs[o]
        W == IF self.normalized THEN R(1) ELSE R(self.image_size[2])
        h1 == clone(h, self.buf)
        coords == Len(h1.bufs)
        FlipXyxy(row) == <<RNeg(RSub(row[1], W)), row[2], RNeg(RSub(row[3], W)), row[4]>>
        FlipXywh(row) == <<RNeg(RSub(RAdd(row[1], row[3]), W)), row[2], row[3], row[4]>>
        FlipCxcywh(row) == <<RNeg(RSub(row[1], W)), row[2], row[3], row[4]>>
        h2 == CASE self.format = "xyxy" -> InPlace(h1, coords, FlipXyxy)
                [] self.format = "xywh" -> InPlace(h1, coords, FlipXywh)
                [] self.format = "cxcywh" -> InPlace(h1, coords, FlipCxcywh)
    IN  BoundingBoxes(h2, coords, self.format, self.normalized, self.image_size)

horizontal_flip(h, o) ==
    LET self == h.objs[o]
        W == IF self.normalized THEN R(1) ELSE R(self.image_size[2])
        h1 == clone(h, self.buf)
        coords == Len(h1.bufs)
        \* coords[:, [2, 0]] = coords[:, [0, 2]].sub_(W).neg_()
        FlipXyxy(row) == LET t == <<RNeg(RSub(row[1], W)), RNeg(RSub(row[3], W))>>
                         IN  <<t[2], row[2], t[1], row[4]>>
        \* coords[:, 0].add_(coords[:, 2]).sub_(W).neg_()
        FlipXywh(row) == <<RNeg(RSub(RAdd(row[1], row[3]), W)), row[2], row[3], row[4]>>
        \* coords[:, 0].sub_(W).neg_()
        FlipCxcywh(row) == <<RNeg(RSub(row[1], W)), row[2], row[3], row[4]>>
        h2 == CASE self.format = "xyxy" -> InPlace(h1, coords, FlipXyxy)
                [] self.format = "xywh" -> InPlace(h1, coords, FlipXywh)
                [] self.format = "cxcywh" -> InPlace(h1, coords, FlipCxcywh)
    IN  BoundingBoxes(h2, coords, self.format, self.normalized, self.image_size)

clamp_to_image(h, o) ==
    LET Clamped(h0, r0) ==
            LET boxes == h0.objs[r0]
                H == IF boxes.normalized THEN 1 ELSE boxes.image_size[1]
                W == IF boxes.normalized THEN 1 ELSE boxes.image_size[2]
                h1 == clone(h0, boxes.buf)
                coords == Len(h1.bufs)
                Clamp(row) == <<RClamp(row[1], R(0), R(W)), RClamp(row[2], R(0), R(H)),
                                RClamp(row[3], R(0), R(W)), RClamp(row[4], R(0), R(H))>>
            IN  BoundingBoxes(InPlace(h1, coords, Clamp), coords, boxes.format,
                              boxes.normalized, boxes.image_size)
        Back(h0, r0) == convert_like(h0, r0, o)
    IN  Then(Then(to_xyxy(h, o), Clamped), Back)

\* fault injection: the crop origin is subtracted from width and height too
crop_MovesSizes(h, o, top, left, bottom, right) ==
    LET Shifted(h0, r0) ==
            LET boxes == h0.objs[r0]
                sub == CASE boxes.format = "xyxy" -> <<R(left), R(top), R(left), R(top)>>
                         [] boxes.format = "xywh" -> <<R(left), R(top), R(left), R(top)>>
                         [] boxes.format = "cxcywh" -> <<R(left), R(top), R(0), R(0)>>
                Sub(row) == [k \in 1..4 |-> RSub(row[k], sub[k])]
            IN  Fresh(h0, MapRows(coordinates(h0, r0), Sub), boxes.format, FALSE,
                      <<bottom - top, right - left>>)
        Back(h0, r0) == convert_like(h0, r0, o)
    IN  Then(Then(Then(denormalize(h, o), Shifted), clamp_to_image), Back)

crop(h, o, top, left, bottom, right) ==
    LET Shifted(h0, r0) ==
            LET boxes == h0.objs[r0]
                sub == CASE boxes.format = "xyxy" -> <<R(left), R(top), R(left), R(top)>>
                         [] boxes.format = "xywh" -> <<R(left), R(top), R(0), R(0)>>
                         [] boxes.format = "cxcywh" -> <<R(left), R(top), R(0), R(0)>>
                Sub(row) == [k \in 1..4 |-> RSub(row[k], sub[k])]
            IN  Fresh(h0, MapRows(coordinates(h0, r0), Sub), boxes.format, FALSE,
                      <<bottom - top, right - left>>)
        Back(h0, r0) == convert_like(h0, r0, o)
    IN  Then(Then(Then(denormalize(h, o), Shifted), clamp_to_image), Back)

-----------------------------------------------------------------------------
(* Operations.  A method that returns a tensor yields [h, v, err].         *)

Value(h, v) ==
    [h |-> h, v |-> v, err |-> "none"]

Raise(h, e) ==
    [h |-> h, r |-> 0, v |-> <<>>, err |-> e]

area(h, o) ==
    LET self == h.objs[o]
        c == coordinates(h, o)
        AreaXyxy(row) == LET wh == VSub(Hi(row), Lo(row)) IN RMul(wh[1], wh[2])
        AreaWh(row) == RMul(row[3], row[4])
    IN  CASE self.format = "xyxy" -> Value(h, MapRows(c, AreaXyxy))
          [] self.format = "xywh" -> Value(h, MapRows(c, AreaWh))
          [] self.format = "cxcywh" -> Value(h, MapRows(c, AreaWh))

\* fault injection: the image sizes are not compared
_check_compatibility_CountOnly(h, o, other) ==
    IF Len(coordinates(h, o)) # Len(coordinates(h, other))
    THEN "ValueError: number of bounding boxes"
    ELSE "none"

\* the error _check_compatibility raises, or "none"
_check_compatibility(h, o, other) ==
    IF Len(coordinates(h, o)) # Len(coordinates(h, other))
    THEN "ValueError: number of bounding boxes"
    ELSE IF h.objs[o].image_size # h.objs[other].image_size
         THEN "ValueError: image size"
         ELSE "none"

\* boxes1 = self.to_xyxy(); boxes2 = other.convert_like(boxes1);
\* boxes1._check_compatibility(boxes2); then Op(heap, boxes1, boxes2)
SetOperation(h, o, other, Op(_, _, _)) ==
    LET Boxes1(h1, r1) ==
            LET Boxes2(h2, r2) ==
                    LET e == _check_compatibility(h2, r1, r2)
                    IN  IF e # "none" THEN Raise(h2, e) ELSE Op(h2, r1, r2)
            IN  Then(convert_like(h1, other, r1), Boxes2)
    IN  Then(to_xyxy(h, o), Boxes1)

union(h, o, other) ==
    LET Op(h2, boxes1, boxes2) ==
            LET c1 == coordinates(h2, boxes1)
                c2 == coordinates(h2, boxes2)
                x1y1(i) == <<RMin(c1[i][1], c2[i][1]), RMin(c1[i][2], c2[i][2])>>
                x2y2(i) == <<RMax(c1[i][3], c2[i][3]), RMax(c1[i][4], c2[i][4])>>
            IN  Fresh(h2, [i \in 1..Len(c1) |-> x1y1(i) \o x2y2(i)], "xyxy",
                      h2.objs[boxes1].normalized, h2.objs[boxes1].image_size)
    IN  SetOperation(h, o, other, Op)

intersection(h, o, other) ==
    LET Op(h2, boxes1, boxes2) ==
            LET c1 == coordinates(h2, boxes1)
                c2 == coordinates(h2, boxes2)
                x1y1(i) == <<RMax(c1[i][1], c2[i][1]), RMax(c1[i][2], c2[i][2])>>
                x2y2(i) == <<RMin(c1[i][3], c2[i][3]), RMin(c1[i][4], c2[i][4])>>
                Clamp0(d) == <<RMax(d[1], R(0)), RMax(d[2], R(0))>>
                Row(xy, wh) == xy \o wh
            IN  Fresh(h2, [i \in 1..Len(c1) |->
                             Row(x1y1(i), Clamp0(VSub(x2y2(i), x1y1(i))))], "xywh",
                      h2.objs[boxes1].normalized, h2.objs[boxes1].image_size)
    IN  SetOperation(h, o, other, Op)

\* a raised exception unwinds; otherwise F goes on with the result
Try(a, F(_)) ==
    IF a.err # "none" THEN Raise(a.h, a.err) ELSE F(a)

\* fault injection: the normalization flags are not compared
intersection_area_Unchecked(h, o, other) ==
    LET Area(i) == area(i.h, i.r)
    IN  Try(intersection(h, o, other), Area)

intersection_area(h, o, other) ==
    LET Area(i) == area(i.h, i.r)
    IN  IF h.objs[o].normalized # h.objs[other].normalized
        THEN Raise(h, "ValueError: normalization")
        ELSE Try(intersection(h, o, other), Area)

\* fault injection: the area of the union box, self.union(other).area()
union_area_AreaOfUnion(h, o, other) ==
    LET Area(u) == area(u.h, u.r)
    IN  IF h.objs[o].normalized # h.objs[other].normalized
        THEN Raise(h, "ValueError: normalization")
        ELSE Try(union(h, o, other), Area)

union_area(h, o, other) ==
    LET Sum(area1, area2) ==
            LET Minus(ia) == Value(ia.h, [i \in 1..Len(area1) |->
                                            RSub(RAdd(area1[i], area2[i]), ia.v[i])])
            IN  Try(intersection_area(h, o, other), Minus)
    IN  IF h.objs[o].normalized # h.objs[other].normalized
        THEN Raise(h, "ValueError: normalization")
        ELSE Sum(area(h, o).v, area(h, other).v)

\* torch.finfo(torch.float32).eps = 2^-23, as 1/EpsDen
EpsDen == 8388608

iou(h, o, other) ==
    LET eps == Rat(1, EpsDen)
        Boxes1(h1, boxes1) ==
            LET Boxes2(h2, boxes2) ==
                    LET Inter(ia) ==
                            LET Ratio(ua) ==
                                    Value(ua.h, [i \in 1..Len(ia.v) |->
                                                   RDiv(ia.v[i], RAdd(ua.v[i], eps))])
                            IN  Try(union_area(ia.h, boxes1, boxes2), Ratio)
                    IN  Try(intersection_area(h2, boxes1, boxes2), Inter)
            IN  Then(normalize(h1, other), Boxes2)
    IN  Then(normalize(h, o), Boxes1)

\* fault injection: the minimums are not divided by the image size
is_valid_RawMinimums(h, o, min_width, min_height) ==
    LET Valid(h0, r0) ==
            LET boxes == h0.objs[r0]
                self == h.objs[o]
                H == IF boxes.normalized THEN R(1) ELSE R(boxes.image_size[1])
                W == IF boxes.normalized THEN R(1) ELSE R(boxes.image_size[2])
                Check(mw, mh) ==
                    LET valid(row) ==
                            /\ \A k \in 1..4 : RLe(R(0), row[k])
                            /\ RLe(row[1], W) /\ RLe(row[2], H)
                            /\ RLe(row[3], W) /\ RLe(row[4], H)
                            /\ RLe(mw, RSub(row[3], row[1]))
                            /\ RLe(mh, RSub(row[4], row[2]))
                    IN  Value(h0, MapRows(coordinates(h0, r0), valid))
            IN  IF boxes.normalized
                THEN Check(min_width, min_height)
                ELSE Check(min_width, min_height)
    IN  Then(to_xyxy(h, o), Valid)

\* min_width and min_height are rationals
is_valid(h, o, min_width, min_height) ==
    LET Valid(h0, r0) ==
            LET boxes == h0.objs[r0]
                self == h.objs[o]
                H == IF boxes.normalized THEN R(1) ELSE R(boxes.image_size[1])
                W == IF boxes.normalized THEN R(1) ELSE R(boxes.image_size[2])
                Check(mw, mh) ==
                    LET valid(row) ==
                            /\ \A k \in 1..4 : RLe(R(0), row[k])
                            /\ RLe(row[1], W) /\ RLe(row[2], H)
                            /\ RLe(row[3], W) /\ RLe(row[4], H)
                            /\ RLe(mw, RSub(row[3], row[1]))
                            /\ RLe(mh, RSub(row[4], row[2]))
                    IN  Value(h0, MapRows(coordinates(h0, r0), valid))
            IN  IF boxes.normalized
                THEN Check(RDiv(min_width, R(self.image_size[2])),
                           RDiv(min_height, R(self.image_size[1])))
                ELSE Check(min_width, min_height)
    IN  Then(to_xyxy(h, o), Valid)

-----------------------------------------------------------------------------
(* Inputs.                                                                 *)

Grid ==
    (0 - 1)..MaxCoord

\* one-row tensors: pixel coordinates on the grid, normalized ones in halves
GridTensors(normalized) ==
    { <<[k \in 1..4 |-> IF normalized THEN Rat(q[k], 2) ELSE R(q[k])]>> :
        q \in [1..4 -> Grid] }

ImageSizes ==
    {<<2, 3>>, <<4, 2>>}

BoxSet(t, format, normalized, image_size) ==
    [t |-> t, format |-> format, normalized |-> normalized, image_size |-> image_size]

\* the box sets of the documented examples and of a two-row tensor
ExampleBoxSets ==
    { BoxSet(<<<<R(0), R(0), R(1), R(1)>>>>, "xyxy", TRUE, <<1, 1>>),
      BoxSet(<<<<R(0), R(0), Rat(1, 10), Rat(1, 10)>>>>, "xyxy", TRUE, <<1, 1>>),
      BoxSet(<<<<R(0), R(0), R(2), R(2)>>>>, "xyxy", FALSE, <<10, 10>>),
      BoxSet(<<<<R(1), R(1), R(3), R(3)>>>>, "xyxy", FALSE, <<10, 10>>) }
    \cup
    { BoxSet(<<<<R(0), R(1), R(2), R(2)>>, <<R(1), R(0), R(1), R(4)>>>>, f, FALSE, <<4, 2>>) :
        f \in BoundingBoxFormat }

InputBoxSets ==
    { BoxSet(t, f, FALSE, <<2, 3>>) : t \in GridTensors(FALSE), f \in BoundingBoxFormat }
    \cup
    { BoxSet(t, f, TRUE, <<2, 3>>) : t \in GridTensors(TRUE), f \in BoundingBoxFormat }
    \cup ExampleBoxSets

\* the heap after the caller has constructed the box sets of the sequence bs
Constructed(bs) ==
    Heap([i \in 1..Len(bs) |-> [buf |-> i, format |-> bs[i].format,
                                normalized |-> bs[i].normalized,
                                image_size |-> bs[i].image_size]],
         [i \in 1..Len(bs) |-> bs[i].t])

NoCall ==
    [op |-> "none", self |-> 0, other |-> 0, args |-> <<>>, r |-> 0, v |-> <<>>,
     err |-> "none"]

-----------------------------------------------------------------------------
(* Calls.  The caller keeps the objects it held and the returned object;   *)
(* objects and tensors that were only intermediate are garbage.            *)

Here ==
    Heap(objs, bufs)

Refs ==
    1..Len(objs)

ReturnObject(op, self, other, args, res) ==
    LET n0 == Len(objs)
        m0 == Len(bufs)
        os == SubSeq(res.h.objs, 1, n0)
        bs == SubSeq(res.h.bufs, 1, m0)
        new == res.err = "none" /\ res.r > n0
        ob == res.h.objs[res.r]
    IN  /\ ncalls < limit
        /\ objs' = IF ~new THEN os
                   ELSE IF ob.buf <= m0 THEN Append(os, ob)
                   ELSE Append(os, [ob EXCEPT !.buf = m0 + 1])
        /\ bufs' = IF new /\ ob.buf > m0 THEN Append(bs, res.h.bufs[ob.buf]) ELSE bs
        /\ ret' = [op |-> op, self |-> self, other |-> other, args |-> args,
                   r |-> IF res.err # "none" THEN 0 ELSE IF new THEN n0 + 1 ELSE res.r,
                   v |-> <<>>, err |-> res.err]
        /\ ncalls' = ncalls + 1
        /\ UNCHANGED <<limit, images, batches, graphs, layer, frame>>

ReturnValue(op, self, other, args, res) ==
    /\ ncalls < limit
    /\ objs' = SubSeq(res.h.objs, 1, Len(objs))
    /\ bufs' = SubSeq(res.h.bufs, 1, Len(bufs))
    /\ ret' = [op |-> op, self |-> self, other |-> other, args |-> args, r |-> 0,
               v |-> res.v, err |-> res.err]
    /\ ncalls' = ncalls + 1
    /\ UNCHANGED <<limit, images, batches, graphs, layer, frame>>

ToXyxy(o) ==
    ReturnObject("to_xyxy", o, 0, <<>>, to_xyxy(Here, o))

ToXywh(o) ==
    ReturnObject("to_xywh", o, 0, <<>>, to_xywh(Here, o))

ToCxcywh(o) ==
    ReturnObject("to_cxcywh", o, 0, <<>>, to_cxcywh(Here, o))

Normalize(o) ==
    ReturnObject("normalize", o, 0, <<>>, normalize(Here, o))

Denormalize(o) ==
    ReturnObject("denormalize", o, 0, <<>>, denormalize(Here, o))

Convert(o, format, normalized) ==
    ReturnObject("convert", o, 0, <<format, normalized>>, convert(Here, o, format, normalized))

ConvertLike(o, other) ==
    ReturnObject("convert_like", o, other, <<>>, convert_like(Here, o, other))

ResizeTargets ==
    ImageSizes \cup {<<3, 3>>}

Resize(o, image_size) ==
    ReturnObject("resize", o, 0, image_size, resize(Here, o, image_size))

HorizontalFlip(o) ==
    ReturnObject("horizontal_flip", o, 0, <<>>, horizontal_flip(Here, o))

\* crop regions <<top, left, bottom, right>> of positive extent
CropRegions ==
    {<<0, 0, 1, 2>>, <<1, 1, 2, 3>>, <<0, 1, 2, 2>>, <<1, 0, 3, 3>>}

Crop(o, g) ==
    ReturnObject("crop", o, 0, g, crop(Here, o, g[1], g[2], g[3], g[4]))

ClampToImage(o) ==
    ReturnObject("clamp_to_image", o, 0, <<>>, clamp_to_image(Here, o))

Area(o) ==
    ReturnValue("area", o, 0, <<>>, area(Here, o))

Union(o, other) ==
    ReturnObject("union", o, other, <<>>, union(Here, o, other))

Intersection(o, other) ==
    ReturnObject("intersection", o, other, <<>>, intersection(Here, o, other))

UnionArea(o, other) ==
    ReturnValue("union_area", o, other, <<>>, union_area(Here, o, other))

IntersectionArea(o, other) ==
    ReturnValue("intersection_area", o, other, <<>>, intersection_area(Here, o, other))

Iou(o, other) ==
    ReturnValue("iou", o, other, <<>>, iou(Here, o, other))

\* <<min_width, min_height>>; <<1, 1>> are the defaults
Thresholds ==
    {<<Rat(1, 2), Rat(1, 2)>>, <<R(1), R(1)>>, <<R(1), R(2)>>}

IsValid(o, m) ==
    ReturnValue("is_valid", o, 0, m, is_valid(Here, o, m[1], m[2]))

-----------------------------------------------------------------------------
(* Spec: one call of any method on one box set drawn from InputBoxSets.    *)

Init ==
    /\ \E b \in InputBoxSets :
          /\ objs = Constructed(<<b>>).objs
          /\ bufs = Constructed(<<b>>).bufs
    /\ ret = NoCall
    /\ ncalls = 0
    /\ limit = 1
    /\ images = <<>>
    /\ batches = <<>>
    /\ graphs = <<>>
    /\ layer = <<>>
    /\ frame = <<>>

Next ==
    \/ \E o \in Refs : ToXyxy(o)
    \/ \E o \in Refs : ToXywh(o)
    \/ \E o \in Refs : ToCxcywh(o)
    \/ \E o \in Refs : Normalize(o)
    \/ \E o \in Refs : Denormalize(o)
    \/ \E o \in Refs, f \in BoundingBoxFormat \cup {"None"}, n \in OptBool : Convert(o, f, n)
    \/ \E o \in Refs, other \in Refs : ConvertLike(o, other)
    \/ \E o \in Refs, s \in ResizeTargets : Resize(o, s)
    \/ \E o \in Refs : HorizontalFlip(o)
    \/ \E o \in Refs, g \in CropRegions : Crop(o, g)
    \/ \E o \in Refs : ClampToImage(o)
    \/ \E o \in Refs : Area(o)
    \/ \E o \in Refs, other \in Refs : Union(o, other)
    \/ \E o \in Refs, other \in Refs : Intersection(o, other)
    \/ \E o \in Refs, other \in Refs : UnionArea(o, other)
    \/ \E o \in Refs, other \in Refs : IntersectionArea(o, other)
    \/ \E o \in Refs, other \in Refs : Iou(o, other)
    \/ \E o \in Refs, m \in Thresholds : IsValid(o, m)

Spec ==
    Init /\ [][Next]_vars

-----------------------------------------------------------------------------
(* SpecPair: one call of a two-operand method on two box sets.             *)

\* integer rows; a normalized operand holds them divided by 4
PairRows ==
    {<<0, 0, 2, 2>>, <<1, 1, 3, 3>>, <<1, 0, 2, 1>>, <<2, 2, 1, 1>>}

PairTensors(normalized) ==
    { <<[k \in 1..4 |-> IF normalized THEN Rat(q[k], 4) ELSE R(q[k])]>> : q \in PairRows }
    \cup
    { <<[k \in 1..4 |-> IF normalized THEN Rat(k, 4) ELSE R(k)],
        [k \in 1..4 |-> IF normalized THEN Rat(4 - k, 4) ELSE R(4 - k)]>> }

PairBoxSets(sizes) ==
    { BoxSet(t, f, FALSE, s) : t \in PairTensors(FALSE), f \in BoundingBoxFormat, s \in sizes }
    \cup
    { BoxSet(t, f, TRUE, s) : t \in PairTensors(TRUE), f \in BoundingBoxFormat, s \in sizes }

InitPair ==
    /\ \E b1 \in PairBoxSets({<<4, 2>>}) \cup ExampleBoxSets,
          b2 \in PairBoxSets(ImageSizes) \cup ExampleBoxSets :
          /\ objs = Constructed(<<b1, b2>>).objs
          /\ bufs = Constructed(<<b1, b2>>).bufs
    /\ ret = NoCall
    /\ ncalls = 0
    /\ limit = 1
    /\ images = <<>>
    /\ batches = <<>>
    /\ graphs = <<>>
    /\ layer = <<>>
    /\ frame = <<>>

NextPair ==
    \/ Union(1, 2)
    \/ Intersection(1, 2)
    \/ UnionArea(1, 2)
    \/ IntersectionArea(1, 2)
    \/ Iou(1, 2)

SpecPair ==
    InitPair /\ [][NextPair]_vars

-----------------------------------------------------------------------------
(* SpecSeq: sequences of up to MaxCalls calls; results become receivers    *)
(* and operands of later calls.                                            *)

InitSeq ==
    /\ \E f \in BoundingBoxFormat, n \in BOOLEAN :
          LET b == BoxSet(<<[k \in 1..4 |-> IF n THEN Rat(k, 4) ELSE R(k)]>>, f, n, <<2, 3>>)
          IN  /\ objs = Constructed(<<b>>).objs
              /\ bufs = Constructed(<<b>>).bufs
    /\ ret = NoCall
    /\ ncalls = 0
    /\ limit = MaxCalls
    /\ images = <<>>
    /\ batches = <<>>
    /\ graphs = <<>>
    /\ layer = <<>>
    /\ frame = <<>>

NextSeq ==
    \/ \E o \in Refs : ToXyxy(o)
    \/ \E o \in Refs : ToXywh(o)
    \/ \E o \in Refs : ToCxcywh(o)
    \/ \E o \in Refs : Normalize(o)
    \/ \E o \in Refs : Denormalize(o)
    \/ \E o \in Refs : Convert(o, "cxcywh", "True") \/ Convert(o, "None", "False")
    \/ \E o \in Refs, other \in Refs : ConvertLike(o, other)
    \/ \E o \in Refs : Resize(o, <<4, 2>>)
    \/ \E o \in Refs : HorizontalFlip(o)
    \/ \E o \in Refs : Crop(o, <<0, 1, 2, 2>>)
    \/ \E o \in Refs : ClampToImage(o)
    \/ \E o \in Refs : Area(o)
    \/ \E o \in Refs, other \in Refs : Union(o, other)
    \/ \E o \in Refs, other \in Refs : Intersection(o, other)
    \/ \E o \in Refs, other \in Refs : UnionArea(o, other)
    \/ \E o \in Refs, other \in Refs : IntersectionArea(o, other)
    \/ \E o \in Refs, other \in Refs : Iou(o, other)
    \/ \E o \in Refs : IsValid(o, <<R(1), R(1)>>)

SpecSeq ==
    InitSeq /\ [][NextSeq]_vars

-----------------------------------------------------------------------------
(* Properties of BoundingBoxes.                                            *)

Called(op) ==
    ret.op = op /\ ret.err = "none"

Receiver ==
    objs[ret.self]

Result ==
    objs[ret.r]

\* the corners <<x1, y1, x2, y2>> of the rectangle a row describes in a format
Corners(row, format) ==
    CASE format = "xyxy" -> row
      [] format = "xywh" -> <<row[1], row[2], RAdd(row[1], row[3]), RAdd(row[2], row[4])>>
      [] format = "cxcywh" ->
            <<RSub(row[1], RDiv(row[3], R(2))), RSub(row[2], RDiv(row[4], R(2))),
              RAdd(row[1], RDiv(row[3], R(2))), RAdd(row[2], RDiv(row[4], R(2)))>>

\* the requested state is the receiver's state
AlreadyThere ==
    \/ ret.op = "to_xyxy" /\ Receiver.format = "xyxy"
    \/ ret.op = "to_xywh" /\ Receiver.format = "xywh"
    \/ ret.op = "to_cxcywh" /\ Receiver.format = "cxcywh"
    \/ ret.op = "normalize" /\ Receiver.normalized
    \/ ret.op = "denormalize" /\ ~Receiver.normalized
    \/ /\ ret.op = "convert"
       /\ ret.args[1] \in {"None", Receiver.format}
       /\ ret.args[2] \in {"None", PyBool(Receiver.normalized)}
    \/ ret.op = "resize" /\ ret.args = Receiver.image_size

\* C1: a conversion to the state the receiver is already in, and a resize to
\* the receiver's own image size, return the receiver itself and allocate
\* no object.
C1_IdentityShortCircuit ==
    AlreadyThere => ret.err = "none" /\ ret.r = ret.self

C1_Witness ==
    /\ ret.op = "convert" /\ ret.args = <<"xywh", "True">>
    /\ Receiver.format = "xywh" /\ Receiver.normalized
    /\ ret.r = ret.self

\* C2: converting the result of convert(f2, n2) back to the receiver's
\* format and normalization gives the receiver's format, normalized flag,
\* image size and coordinates.
C2_RoundTrip ==
    Called("convert") =>
        LET back == convert(Here, ret.r, Receiver.format, PyBool(Receiver.normalized))
            b == back.h.objs[back.r]
        IN  /\ back.err = "none"
            /\ b.format = Receiver.format
            /\ b.normalized = Receiver.normalized
            /\ b.image_size = Receiver.image_size
            /\ back.h.bufs[b.buf] = bufs[Receiver.buf]

C2_Witness ==
    /\ Called("convert")
    /\ Result.format # Receiver.format
    /\ Result.normalized # Receiver.normalized
    /\ bufs[Result.buf] # bufs[Receiver.buf]
    /\ bufs[Receiver.buf][1][3] # bufs[Receiver.buf][1][4]

TargetFormat ==
    [to_xyxy |-> "xyxy", to_xywh |-> "xywh", to_cxcywh |-> "cxcywh"]

\* C3: to_xyxy, to_xywh and to_cxcywh succeed from every source format; the
\* result has the target format, the receiver's normalized flag and image
\* size, as many rows, and every row describes the corners of the
\* receiver's row.
C3_FormatConversion ==
    ret.op \in DOMAIN TargetFormat =>
        /\ ret.err = "none"
        /\ Result.format = TargetFormat[ret.op]
        /\ Result.normalized = Receiver.normalized
        /\ Result.image_size = Receiver.image_size
        /\ Len(bufs[Result.buf]) = Len(bufs[Receiver.buf])
        /\ \A i \in 1..Len(bufs[Receiver.buf]) :
              Corners(bufs[Result.buf][i], Result.format)
                = Corners(bufs[Receiver.buf][i], Receiver.format)

C3_Witness ==
    /\ Called("to_cxcywh") /\ Receiver.format = "xyxy"
    /\ Len(bufs[Receiver.buf]) = 2
    /\ Result.format = "cxcywh"

\* pixel coordinates of a row of a box set
Pixels(row, normalized, image_size) ==
    IF normalized
    THEN <<RMul(row[1], R(image_size[2])), RMul(row[2], R(image_size[1])),
           RMul(row[3], R(image_size[2])), RMul(row[4], R(image_size[1]))>>
    ELSE row

\* what crop(top, left, bottom, right) is to do with the pixel row of a box
\* in a format: move the position fields, then clamp the corners
CroppedCorners(row, format, g) ==
    LET left == R(g[2])
        top == R(g[1])
        moved == IF format = "xyxy"
                 THEN <<RSub(row[1], left), RSub(row[2], top),
                        RSub(row[3], left), RSub(row[4], top)>>
                 ELSE <<RSub(row[1], left), RSub(row[2], top), row[3], row[4]>>
        c == Corners(moved, format)
        W == R(g[4] - g[2])
        H == R(g[3] - g[1])
    IN  <<RClamp(c[1], R(0), W), RClamp(c[2], R(0), H),
          RClamp(c[3], R(0), W), RClamp(c[4], R(0), H)>>

\* C7: crop keeps the format and the normalized flag, sets image_size to the
\* crop extent, and each resulting row, in pixels of the crop, has the
\* corners of the receiver's pixel row moved by (left, top) in its position
\* fields and clamped to the crop extent.
C7_Crop ==
    ret.op = "crop" =>
        /\ ret.err = "none"
        /\ Result.format = Receiver.format
        /\ Result.normalized = Receiver.normalized
        /\ Result.image_size = <<ret.args[3] - ret.args[1], ret.args[4] - ret.args[2]>>
        /\ Len(bufs[Result.buf]) = Len(bufs[Receiver.buf])
        /\ \A i \in 1..Len(bufs[Receiver.buf]) :
              Corners(Pixels(bufs[Result.buf][i], Result.normalized, Result.image_size),
                      Result.format)
                = CroppedCorners(Pixels(bufs[Receiver.buf][i], Receiver.normalized,
                                        Receiver.image_size),
                                 Receiver.format, ret.args)

\* a normalized XYWH box that the crop region cuts
C7_Witness ==
    /\ Called("crop") /\ ret.args = <<1, 1, 2, 3>>
    /\ Receiver.format = "xywh" /\ Receiver.normalized
    /\ bufs[Receiver.buf][1] = <<R(0), Rat(1, 2), R(1), Rat(1, 2)>>
    /\ bufs[Result.buf][1] = <<R(0), R(0), R(1), R(1)>>

\* is_valid's answer for a row, as the documentation states it
ValidRow(row, format, normalized, image_size, m) ==
    LET c == Corners(row, format)
        W == IF normalized THEN R(1) ELSE R(image_size[2])
        H == IF normalized THEN R(1) ELSE R(image_size[1])
        min_width == IF normalized THEN RDiv(m[1], R(image_size[2])) ELSE m[1]
        min_height == IF normalized THEN RDiv(m[2], R(image_size[1])) ELSE m[2]
    IN  /\ \A k \in 1..4 : RLe(R(0), c[k])
        /\ RLe(c[1], W) /\ RLe(c[3], W)
        /\ RLe(c[2], H) /\ RLe(c[4], H)
        /\ RLe(min_width, RSub(c[3], c[1]))
        /\ RLe(min_height, RSub(c[4], c[2]))

\* C8: is_valid marks a row valid iff its corners are within the image (the
\* unit square when normalized) and its width and height reach the minimums,
\* which are divided by the image width and height when normalized; the box
\* [0,0,1,1] of a 1x1 image, normalized, is valid for minimums 1/2 and the
\* box [0,0,1/10,1/10] is not.
C8_IsValid ==
    ret.op = "is_valid" =>
        /\ ret.err = "none"
        /\ ret.v = [i \in 1..Len(bufs[Receiver.buf]) |->
                      ValidRow(bufs[Receiver.buf][i], Receiver.format, Receiver.normalized,
                               Receiver.image_size, ret.args)]
        /\ ( /\ Receiver = [buf |-> Receiver.buf, format |-> "xyxy", normalized |-> TRUE,
                            image_size |-> <<1, 1>>]
             /\ ret.args = <<Rat(1, 2), Rat(1, 2)>> )
           => /\ bufs[Receiver.buf] = <<<<R(0), R(0), R(1), R(1)>>>> => ret.v = <<TRUE>>
              /\ bufs[Receiver.buf] = <<<<R(0), R(0), Rat(1, 10), Rat(1, 10)>>>>
                    => ret.v = <<FALSE>>

\* the documented example of a box that is too small
C8_Witness ==
    /\ Called("is_valid")
    /\ bufs[Receiver.buf] = <<<<R(0), R(0), Rat(1, 10), Rat(1, 10)>>>>
    /\ Receiver.normalized /\ Receiver.image_size = <<1, 1>>
    /\ ret.args = <<Rat(1, 2), Rat(1, 2)>>
    /\ ret.v = <<FALSE>>

-----------------------------------------------------------------------------
(* Properties of the two-operand methods.                                  *)

Other ==
    objs[ret.other]

NumBoxes(b) ==
    Len(bufs[b.buf])

\* equal box count, image size and normalization
SameFrame ==
    /\ NumBoxes(Receiver) = NumBoxes(Other)
    /\ Receiver.image_size = Other.image_size
    /\ Receiver.normalized = Other.normalized

\* max(0, min(x2) - max(x1)) * max(0, min(y2) - max(y1)) on two corner rows
OverlapArea(c1, c2) ==
    RMul(RMax(R(0), RSub(RMin(c1[3], c2[3]), RMax(c1[1], c2[1]))),
         RMax(R(0), RSub(RMin(c1[4], c2[4]), RMax(c1[2], c2[2]))))

\* width times height of a corner row
CornerArea(c) ==
    RMul(RSub(c[3], c[1]), RSub(c[4], c[2]))

IntersectionAreaOf(i) ==
    OverlapArea(Corners(bufs[Receiver.buf][i], Receiver.format),
                Corners(bufs[Other.buf][i], Other.format))

UnionAreaOf(i) ==
    RSub(RAdd(CornerArea(Corners(bufs[Receiver.buf][i], Receiver.format)),
              CornerArea(Corners(bufs[Other.buf][i], Other.format))),
         IntersectionAreaOf(i))

\* the area of the whole image in the unit of the coordinates
ImageArea ==
    IF Receiver.normalized THEN R(1)
    ELSE R(Receiver.image_size[1] * Receiver.image_size[2])

\* intersection area over union area plus eps, both as fractions of the image
IouOf(i) ==
    RDiv(RDiv(IntersectionAreaOf(i), ImageArea),
         RAdd(RDiv(UnionAreaOf(i), ImageArea), Rat(1, EpsDen)))

\* the documented example: [[0,0,2,2]] and [[1,1,3,3]], XYXY, unnormalized,
\* image size (10, 10)
ExamplePair ==
    /\ Receiver = [buf |-> Receiver.buf, format |-> "xyxy", normalized |-> FALSE,
                   image_size |-> <<10, 10>>]
    /\ Other = [buf |-> Other.buf, format |-> "xyxy", normalized |-> FALSE,
                image_size |-> <<10, 10>>]
    /\ bufs[Receiver.buf] = <<<<R(0), R(0), R(2), R(2)>>>>
    /\ bufs[Other.buf] = <<<<R(1), R(1), R(3), R(3)>>>>

AreaCall ==
    ret.op \in {"intersection_area", "union_area", "iou"}

\* C4 as stated: for operands of equal box count, image size and
\* normalization, intersection_area is the overlap of the XYXY corners,
\* union_area is area(self) + area(other) - intersection_area and iou is
\* intersection_area / union_area; the example gives 1, 7 and 1/7.
C4_IouIsRatio ==
    (AreaCall /\ SameFrame) =>
        /\ ret.err = "none"
        /\ ret.op = "intersection_area" =>
              /\ ret.v = [i \in 1..NumBoxes(Receiver) |-> IntersectionAreaOf(i)]
              /\ ExamplePair => ret.v = <<R(1)>>
        /\ ret.op = "union_area" =>
              /\ ret.v = [i \in 1..NumBoxes(Receiver) |-> UnionAreaOf(i)]
              /\ ExamplePair => ret.v = <<R(7)>>
        /\ ret.op = "iou" =>
              /\ \A i \in 1..NumBoxes(Receiver) :
                    UnionAreaOf(i) # R(0) =>
                        ret.v[i] = RDiv(IntersectionAreaOf(i), UnionAreaOf(i))
              /\ ExamplePair => ret.v = <<Rat(1, 7)>>

\* C4, amended: for operands of equal box count, image size and
\* normalization, intersection_area is the overlap of the XYXY corners,
\* union_area is area(self) + area(other) - intersection_area, and iou is
\* the intersection area over the union area plus eps = 2^-23, both areas
\* taken on the normalized boxes; the example gives 1, 7 and
\* (1/100) / (7/100 + 2^-23) = 2097152/14680089, a little below 1/7.
C4_AreasAndIou ==
    (AreaCall /\ SameFrame) =>
        /\ ret.err = "none"
        /\ ret.op = "intersection_area" =>
              /\ ret.v = [i \in 1..NumBoxes(Receiver) |-> IntersectionAreaOf(i)]
              /\ ExamplePair => ret.v = <<R(1)>>
        /\ ret.op = "union_area" =>
              /\ ret.v = [i \in 1..NumBoxes(Receiver) |-> UnionAreaOf(i)]
              /\ ExamplePair => ret.v = <<R(7)>>
        /\ ret.op = "iou" =>
              /\ ret.v = [i \in 1..NumBoxes(Receiver) |-> IouOf(i)]
              /\ ExamplePair => /\ ret.v = <<Rat(2097152, 14680089)>>
                                /\ ret.v # <<Rat(1, 7)>>

\* iou of the documented example
C4_Witness ==
    /\ Called("iou") /\ SameFrame /\ ExamplePair
    /\ ret.v = <<Rat(2097152, 14680089)>>

\* Op on the two operands after the caller has converted both to XYXY
OnXyxy(Op(_, _, _)) ==
    LET First(h1, r1) ==
            LET Second(h2, r2) == Op(h2, r1, r2)
            IN  Then(to_xyxy(h1, ret.other), Second)
    IN  Then(to_xyxy(Here, ret.self), First)

\* the corners of the rows of a returned box set
Rectangles(res) ==
    [i \in 1..Len(coordinates(res.h, res.r)) |->
        Corners(coordinates(res.h, res.r)[i], res.h.objs[res.r].format)]

\* the corners of row i of the other operand, in the receiver's unit
OtherCorners(i) ==
    LET c == Corners(bufs[Other.buf][i], Other.format)
        W == R(Other.image_size[2])
        H == R(Other.image_size[1])
    IN  IF Other.normalized = Receiver.normalized THEN c
        ELSE IF Receiver.normalized
             THEN <<RDiv(c[1], W), RDiv(c[2], H), RDiv(c[3], W), RDiv(c[4], H)>>
             ELSE <<RMul(c[1], W), RMul(c[2], H), RMul(c[3], W), RMul(c[4], H)>>

\* the smallest corner row around both rows i
Hull(i) ==
    LET c1 == Corners(bufs[Receiver.buf][i], Receiver.format)
        c2 == OtherCorners(i)
    IN  <<RMin(c1[1], c2[1]), RMin(c1[2], c2[2]), RMax(c1[3], c2[3]), RMax(c1[4], c2[4])>>

\* the overlap of both rows i as x, y, width, height, empty extents being 0
Overlap(i) ==
    LET c1 == Corners(bufs[Receiver.buf][i], Receiver.format)
        c2 == OtherCorners(i)
        x == RMax(c1[1], c2[1])
        y == RMax(c1[2], c2[2])
    IN  <<x, y, RMax(R(0), RSub(RMin(c1[3], c2[3]), x)),
                RMax(R(0), RSub(RMin(c1[4], c2[4]), y))>>

Incompatible ==
    \/ NumBoxes(Receiver) # NumBoxes(Other)
    \/ Receiver.image_size # Other.image_size

\* C5: union and intersection raise a ValueError exactly when the operands
\* differ in box count or image size, whatever their formats; otherwise they
\* return, in the receiver's normalization and image size, the rectangles
\* that the same call gives on operands first converted to XYXY: the hull of
\* each pair of rows for union, their overlap for intersection.
C5_SetOperations ==
    ret.op \in {"union", "intersection"} =>
        LET ref == IF ret.op = "union" THEN OnXyxy(union) ELSE OnXyxy(intersection)
        IN  /\ Incompatible <=> ret.err # "none"
            /\ ret.err # "none" =>
                  /\ ret.err \in {"ValueError: number of bounding boxes",
                                  "ValueError: image size"}
                  /\ ret.r = 0
            /\ ret.err = "none" =>
                  /\ ref.err = "none"
                  /\ Rectangles([h |-> Here, r |-> ret.r]) = Rectangles(ref)
                  /\ Result.normalized = Receiver.normalized
                  /\ Result.image_size = Receiver.image_size
                  /\ ret.op = "union" =>
                        /\ Result.format = "xyxy"
                        /\ bufs[Result.buf] = [i \in 1..NumBoxes(Receiver) |-> Hull(i)]
                  /\ ret.op = "intersection" =>
                        /\ Result.format = "xywh"
                        /\ bufs[Result.buf] = [i \in 1..NumBoxes(Receiver) |-> Overlap(i)]

\* a union of operands that differ in format and in normalization
C5_Witness ==
    /\ Called("union")
    /\ Receiver.format = "cxcywh" /\ Other.format = "xywh"
    /\ Receiver.normalized /\ ~Other.normalized
    /\ NumBoxes(Receiver) = 2
    /\ Result.format = "xyxy" /\ Result.normalized

\* C6: union_area and intersection_area called on operands whose normalized
\* flags differ raise the normalization ValueError, for every pair of
\* formats, and return no area.
C6_NormalizationMismatch ==
    (ret.op \in {"union_area", "intersection_area"}
        /\ Receiver.normalized # Other.normalized) =>
        /\ ret.err = "ValueError: normalization"
        /\ ret.v = <<>>

\* operands of equal count and image size, different formats and flags
C6_Witness ==
    /\ ret.op = "intersection_area"
    /\ Receiver.format = "xyxy" /\ Other.format = "cxcywh"
    /\ Receiver.normalized /\ ~Other.normalized
    /\ ~Incompatible
    /\ ret.err = "ValueError: normalization"

-----------------------------------------------------------------------------
(* Frame property of BoundingBoxes.                                        *)

\* C9: a call of any BoundingBoxes operation leaves every box set that
\* existed before the call with its coordinates, format, normalized flag and
\* image size, the receiver and the other operand included, and an object
\* it returns is the receiver itself or an object that did not exist before.
C9_NoMutation ==
    [][ /\ Len(objs') >= Len(objs)
        /\ \A o \in 1..Len(objs) :
              /\ objs'[o] = objs[o]
              /\ bufs'[objs[o].buf] = bufs[objs[o].buf]
        /\ ret'.r \in {0, ret'.self, Len(objs) + 1}
        /\ ret'.r = Len(objs) + 1 => Len(objs') = Len(objs) + 1 ]_vars

\* a flip of a box set that shares its coordinate tensor with the box set
\* it was resized from: the flipped coordinates are in a tensor of their own
C9_Witness ==
    /\ Called("horizontal_flip")
    /\ ret.self = 2 /\ objs[2].buf = objs[1].buf
    /\ ret.r = 3 /\ objs[3].buf # objs[1].buf
    /\ bufs[objs[3].buf] # bufs[objs[1].buf]
    /\ bufs[objs[1].buf] = <<<<Rat(1, 4), Rat(1, 2), Rat(3, 4), R(1)>>>>

-----------------------------------------------------------------------------
(* BatchedImages.  A tensor is a record of shape, dtype, device and data;  *)
(* data is the nested sequence of the entries, outermost dimension first.  *)
(* Entries are integers, which every numeric dtype of the model holds.     *)

\* image heights and widths are drawn from 0..MaxSide
MaxSide == 2

\* the lists passed to batch hold up to MaxImages images
MaxImages == 2

Tensor(shape, dtype, device, data) ==
    [shape |-> shape, dtype |-> dtype, device |-> device, data |-> data]

\* Python's None, and an optional argument that is given
None ==
    <<>>

Some(x) ==
    <<x>>

Max(S) ==
    CHOOSE x \in S : \A y \in S : y <= x

Min(S) ==
    CHOOSE x \in S : \A y \in S : x <= y

\* the entries of torch.full / torch.ones / torch.zeros with three dimensions
Full3(shape, fill_value) ==
    [i \in 1..shape[1] |-> [r \in 1..shape[2] |-> [c \in 1..shape[3] |-> fill_value]]]

\* the same with four dimensions
Full4(shape, fill_value) ==
    [i \in 1..shape[1] |-> Full3(Tail(shape), fill_value)]

\* the number of indices the slice [:stop] selects in a dimension of length n
SliceLen(stop, n) ==
    IF stop < 0 THEN Max({n + stop, 0}) ELSE Min({stop, n})

RECURSIVE SumSeq(_)
\* Tensor.sum of a sequence of integers
SumSeq(q) ==
    IF Len(q) = 0 THEN 0 ELSE Head(q) + SumSeq(Tail(q))

\* h = m.shape[0] - m.sum(0).sum(0).item(); w = m.shape[1] - m.sum(0).sum(0).item()
_compute_sizes_from_mask(mask) ==
    LET Count(b) == IF b THEN 1 ELSE 0
        \* m.sum(0): one sum per column
        Sum0(m, W) == [c \in 1..W |-> SumSeq([r \in 1..Len(m) |-> Count(m[r][c])])]
        Item(m) == SumSeq(Sum0(m, mask.shape[3]))
    IN  [i \in 1..Len(mask.data) |->
            <<mask.shape[2] - Item(mask.data[i]), mask.shape[3] - Item(mask.data[i])>>]

\* fault injection: height and width of each size are taken in the wrong order
_compute_mask_from_sizes_Transposed(sizes, max_height, max_width, device) ==
    LET shape == <<Len(sizes), max_height, max_width>>
        ones == Full3(shape, TRUE)
    IN  Tensor(shape, "bool", device,
               [i \in 1..Len(sizes) |-> [r \in 1..max_height |-> [c \in 1..max_width |->
                   IF r <= SliceLen(sizes[i][2], max_height)
                      /\ c <= SliceLen(sizes[i][1], max_width)
                   THEN FALSE ELSE ones[i][r][c]]]])

\* torch.ones(...), then mask[i, : size[0], : size[1]] = False for each item
_compute_mask_from_sizes(sizes, max_height, max_width, device) ==
    LET shape == <<Len(sizes), max_height, max_width>>
        ones == Full3(shape, TRUE)
    IN  Tensor(shape, "bool", device,
               [i \in 1..Len(sizes) |-> [r \in 1..max_height |-> [c \in 1..max_width |->
                   IF r <= SliceLen(sizes[i][1], max_height)
                      /\ c <= SliceLen(sizes[i][2], max_width)
                   THEN FALSE ELSE ones[i][r][c]]]])

\* fault injection: the devices of the images are not compared
_check_images_AnyDevice(imgs) ==
    IF Len(imgs) = 0
    THEN "ValueError: At least one image must be provided."
    ELSE IF \E i \in 1..Len(imgs) : Len(imgs[i].shape) # 3
    THEN "ValueError: All images must have 3 dimensions."
    ELSE IF \E i \in 1..Len(imgs) : imgs[i].shape[1] # imgs[1].shape[1]
    THEN "ValueError: All images must have the same number of channels."
    ELSE IF \E i \in 1..Len(imgs) : imgs[i].dtype # imgs[1].dtype
    THEN "ValueError: All images must have the same dtype."
    ELSE "none"

\* the error _check_images raises, or "none"
_check_images(imgs) ==
    IF Len(imgs) = 0
    THEN "ValueError: At least one image must be provided."
    ELSE IF \E i \in 1..Len(imgs) : Len(imgs[i].shape) # 3
    THEN "ValueError: All images must have 3 dimensions."
    ELSE IF \E i \in 1..Len(imgs) : imgs[i].shape[1] # imgs[1].shape[1]
    THEN "ValueError: All images must have the same number of channels."
    ELSE IF \E i \in 1..Len(imgs) : imgs[i].dtype # imgs[1].dtype
    THEN "ValueError: All images must have the same dtype."
    ELSE IF \E i \in 1..Len(imgs) : imgs[i].device # imgs[1].device
    THEN "ValueError: All images must be on the same device."
    ELSE "none"

\* fault injection: only the batch dimensions are compared
_check_data_mask_BatchOnly(data, mask) ==
    IF data.shape[1] # mask.shape[1]
    THEN "ValueError: The data and mask are incompatible."
    ELSE "none"

\* the error _check_data_mask raises, or "none"
_check_data_mask(data, mask) ==
    IF data.shape[1] # mask.shape[1]
       \/ SubSeq(data.shape, 3, Len(data.shape)) # SubSeq(mask.shape, 2, Len(mask.shape))
    THEN "ValueError: The data and mask are incompatible."
    ELSE "none"

\* BatchedImages.__init__(data, image_sizes, mask, check_validity):
\* image_sizes and mask are None or Some(value); the result r is Some of the
\* structure's slots, or None with the error raised
BatchedImages(data, image_sizes, mask, check_validity) ==
    LET B == data.shape[1]
        H == data.shape[3]
        W == data.shape[4]
        Slots(sizes, m, check) ==
            LET e == IF ~check THEN "none"
                     ELSE IF m.device # data.device
                     THEN "ValueError: The data and mask must be on the same device."
                     ELSE IF m.dtype # "bool"
                     THEN "ValueError: The mask must be of dtype bool."
                     ELSE _check_data_mask(data, m)
            IN  IF e # "none"
                THEN [r |-> None, err |-> e]
                ELSE [r |-> Some([_data |-> data, _image_sizes |-> sizes, _mask |-> m]),
                      err |-> "none"]
    IN  CASE image_sizes = None /\ mask = None ->
                Slots([i \in 1..B |-> <<H, W>>],
                      Tensor(<<B, H, W>>, "bool", data.device, Full3(<<B, H, W>>, FALSE)),
                      FALSE)
          [] image_sizes = None /\ mask # None ->
                Slots(_compute_sizes_from_mask(mask[1]), mask[1], check_validity)
          [] image_sizes # None /\ mask = None ->
                Slots(image_sizes[1],
                      _compute_mask_from_sizes(image_sizes[1], H, W, data.device),
                      check_validity)
          [] OTHER ->
                IF check_validity /\ image_sizes[1] # _compute_sizes_from_mask(mask[1])
                THEN [r |-> None,
                      err |-> "ValueError: The image_sizes and mask are incompatible."]
                ELSE Slots(image_sizes[1], mask[1], check_validity)

\* BatchedImages.batch(images, padding_value)
batch(imgs, padding_value) ==
    LET e == _check_images(imgs)
        image_sizes == [i \in 1..Len(imgs) |-> <<imgs[i].shape[2], imgs[i].shape[3]>>]
        max_height == Max({image_sizes[i][1] : i \in 1..Len(imgs)})
        max_width == Max({image_sizes[i][2] : i \in 1..Len(imgs)})
        shape == <<Len(imgs), imgs[1].shape[1], max_height, max_width>>
        full == Full4(shape, padding_value)
        \* data[i, :, : image.shape[1], : image.shape[2]].copy_(image), for each i
        data == [i \in 1..shape[1] |-> [c \in 1..shape[2] |-> [r \in 1..shape[3] |->
                    [col \in 1..shape[4] |->
                        IF r <= imgs[i].shape[2] /\ col <= imgs[i].shape[3]
                        THEN imgs[i].data[c][r][col]
                        ELSE full[i][c][r][col]]]]]
    IN  IF e # "none"
        THEN [r |-> None, err |-> e]
        ELSE BatchedImages(Tensor(shape, imgs[1].dtype, imgs[1].device, data),
                           Some(image_sizes), None, FALSE)

\* the call BatchedImages.batch(images, padding_value) and what it returns
Batch(padding_value) ==
    LET res == batch(images, padding_value)
        ok == res.err = "none"
    IN  /\ ncalls < limit
        /\ batches' = IF ok THEN Append(batches, res.r[1]) ELSE batches
        /\ ret' = [op |-> "batch", self |-> 0, other |-> 0, args |-> <<padding_value>>,
                   r |-> IF ok THEN Len(batches) + 1 ELSE 0, v |-> <<>>, err |-> res.err]
        /\ ncalls' = ncalls + 1
        /\ UNCHANGED <<objs, bufs, limit, images, graphs, layer, frame>>

-----------------------------------------------------------------------------
(* SpecImages: one call of BatchedImages.batch on a list of images.        *)

\* entry (c, r, col) of the k-th image of a list: every entry is different
Pixel(k, c, r, col) ==
    1000 * k + 100 * c + 10 * r + col

\* an image tensor of two or three dimensions
Image(k, shape, dtype, device) ==
    Tensor(shape, dtype, device,
           IF Len(shape) = 3
           THEN [c \in 1..shape[1] |-> [r \in 1..shape[2] |-> [col \in 1..shape[3] |->
                    Pixel(k, c, r, col)]]]
           ELSE [r \in 1..shape[1] |-> [col \in 1..shape[2] |-> Pixel(k, 0, r, col)]])

Channels ==
    {1, 2}

Dtypes ==
    {"float32", "int64"}

\* the devices tensors are on
Devices ==
    {"cpu", "cuda:0"}

PaddingValues ==
    {0, 0 - 1}

Sides ==
    0..MaxSide

\* lists of images that agree in channels, dtype and device
UniformLists ==
    UNION { { [i \in 1..n |-> Image(i, <<C, hw[i][1], hw[i][2]>>, dt, dev)] :
                C \in Channels, dt \in Dtypes, dev \in Devices,
                hw \in [1..n -> Sides \X Sides] } : n \in 1..MaxImages }

\* the documented example: images of 3 x 4 x 5 and 3 x 6 x 3
ExampleList ==
    <<Image(1, <<3, 4, 5>>, "float32", "cpu"), Image(2, <<3, 6, 3>>, "float32", "cpu")>>

\* a 1 x 1 x 2 float32 image on the cpu, with one property changed
Odd(k, kind) ==
    CASE kind = "ndim" -> Image(k, <<1, 2>>, "float32", "cpu")
      [] kind = "channels" -> Image(k, <<3, 1, 2>>, "float32", "cpu")
      [] kind = "dtype" -> Image(k, <<1, 1, 2>>, "int64", "cpu")
      [] kind = "device" -> Image(k, <<1, 1, 2>>, "float32", "cuda:0")

\* the empty list, and lists in which one image differs from the others
MixedLists ==
    {<<>>} \cup
    { [i \in 1..nk[1] |-> IF i = nk[2] THEN Odd(i, kind)
                      ELSE Image(i, <<1, 1, 2>>, "float32", "cpu")] :
        nk \in {x \in (1..MaxImages) \X (1..MaxImages) : x[2] <= x[1]},
        kind \in {"ndim", "channels", "dtype", "device"} }

InputImageLists ==
    UniformLists \cup {ExampleList} \cup MixedLists

InitImages ==
    /\ images \in InputImageLists
    /\ batches = <<>>
    /\ graphs = <<>>
    /\ layer = <<>>
    /\ frame = <<>>
    /\ objs = <<>>
    /\ bufs = <<>>
    /\ ret = NoCall
    /\ ncalls = 0
    /\ limit = 1

NextImages ==
    \E padding_value \in PaddingValues : Batch(padding_value)

SpecImages ==
    InitImages /\ [][NextImages]_vars

-----------------------------------------------------------------------------
(* Properties of BatchedImages.                                            *)

\* a non-empty list of C x h x w images of one dtype on one device
ImagesOfOneKind ==
    /\ Len(images) > 0
    /\ \A i \in 1..Len(images) :
          /\ Len(images[i].shape) = 3
          /\ images[i].shape[1] = images[1].shape[1]
          /\ images[i].dtype = images[1].dtype
          /\ images[i].device = images[1].device

RECURSIVE HasShape(_, _)
\* the nested sequence t holds exactly the entries of a tensor of this shape
HasShape(t, shape) ==
    /\ Len(t) = shape[1]
    /\ Len(shape) > 1 => \A i \in 1..Len(t) : HasShape(t[i], Tail(shape))

\* C10: batch of a non-empty list of C x h_i x w_i images returns data of
\* shape (B, C, max h_i, max w_i), image_sizes[i] = (h_i, w_i), the entries
\* of image i in data[i, :, :h_i, :w_i] and padding_value in every other
\* entry, and a mask that is False at [i, r, c] exactly when r < h_i and
\* c < w_i; images of 3 x 4 x 5 and 3 x 6 x 3 give data of shape (2, 3, 6, 5).
C10_Batch ==
    (ret.op = "batch" /\ ImagesOfOneKind) =>
        /\ ret.err = "none"
        /\ LET b == batches[ret.r]
               B == Len(images)
               C == images[1].shape[1]
               h(i) == images[i].shape[2]
               w(i) == images[i].shape[3]
               H == Max({h(i) : i \in 1..B})
               W == Max({w(i) : i \in 1..B})
           IN  /\ b._data.shape = <<B, C, H, W>>
               /\ HasShape(b._data.data, <<B, C, H, W>>)
               /\ b._image_sizes = [i \in 1..B |-> <<h(i), w(i)>>]
               /\ \A i \in 1..B, c \in 1..C, r \in 1..H, col \in 1..W :
                     b._data.data[i][c][r][col] =
                        IF r <= h(i) /\ col <= w(i)
                        THEN images[i].data[c][r][col]
                        ELSE ret.args[1]
               /\ b._mask.shape = <<B, H, W>>
               /\ HasShape(b._mask.data, <<B, H, W>>)
               /\ \A i \in 1..B, r \in 1..H, col \in 1..W :
                     b._mask.data[i][r][col] = ~(r <= h(i) /\ col <= w(i))
               /\ (B = 2 /\ images[1].shape = <<3, 4, 5>> /\ images[2].shape = <<3, 6, 3>>)
                     => b._data.shape = <<2, 3, 6, 5>>

\* the documented example, padded with -1
C10_Witness ==
    /\ Called("batch") /\ ret.args = <<0 - 1>>
    /\ Len(images) = 2
    /\ images[1].shape = <<3, 4, 5>> /\ images[2].shape = <<3, 6, 3>>
    /\ batches[ret.r]._data.shape = <<2, 3, 6, 5>>
    /\ batches[ret.r]._data.data[1][3][5][1] = 0 - 1
    /\ batches[ret.r]._data.data[2][3][6][3] = Pixel(2, 3, 6, 3)
    /\ batches[ret.r]._mask.data[1][5][1] = TRUE
    /\ batches[ret.r]._mask.data[2][6][3] = FALSE
    /\ batches[ret.r]._mask.data[2][1][4] = TRUE

\* the documented reasons for batch to fail
BadImageList ==
    \/ Len(images) = 0
    \/ \E i \in 1..Len(images) : Len(images[i].shape) # 3
    \/ \E i, j \in 1..Len(images) :
          \/ images[i].shape[1] # images[j].shape[1]
          \/ images[i].dtype # images[j].dtype
          \/ images[i].device # images[j].device

\* C12: batch raises a ValueError and builds no structure when the list is
\* empty, when an image is not 3-dimensional or when the images disagree in
\* channel count, dtype or device, and it fails on no other list.
C12_BatchErrors ==
    ret.op = "batch" =>
        /\ BadImageList <=> ret.err # "none"
        /\ ret.err # "none" =>
              /\ ret.err \in {"ValueError: At least one image must be provided.",
                              "ValueError: All images must have 3 dimensions.",
                              "ValueError: All images must have the same number of channels.",
                              "ValueError: All images must have the same dtype.",
                              "ValueError: All images must be on the same device."}
              /\ ret.r = 0
              /\ batches = <<>>

\* the second of two images is on another device
C12_Witness ==
    /\ ret.op = "batch"
    /\ Len(images) = 2
    /\ images[1].shape = images[2].shape /\ images[1].dtype = images[2].dtype
    /\ images[1].device = "cpu" /\ images[2].device = "cuda:0"
    /\ ret.err = "ValueError: All images must be on the same device."
    /\ batches = <<>>

-----------------------------------------------------------------------------
(* Methods of BatchedImages.  self is the record of the structure's slots. *)

\* data[i]: item i with its padding
ItemView_Padded(data, i, h, w) ==
    Tensor(Tail(data.shape), data.dtype, data.device, data.data[i])

\* data[i, :, :h, :w]: a view of item i (i counted from 1)
ItemView(data, i, h, w) ==
    Tensor(<<data.shape[2], SliceLen(h, data.shape[3]), SliceLen(w, data.shape[4])>>,
           data.dtype, data.device,
           [c \in 1..data.shape[2] |-> [r \in 1..SliceLen(h, data.shape[3]) |->
               [col \in 1..SliceLen(w, data.shape[4]) |-> data.data[i][c][r][col]]]])

\* BatchedImages.unbatch(): the tuple of views, or the IndexError of data[i]
unbatch(self) ==
    IF Len(self._image_sizes) > self._data.shape[1]
    THEN [v |-> <<>>, err |-> "IndexError"]
    ELSE [v |-> [i \in 1..Len(self._image_sizes) |->
                    ItemView(self._data, i, self._image_sizes[i][1],
                             self._image_sizes[i][2])],
          err |-> "none"]

\* the position (from 1) that Python's index selects in a sequence of length
\* n, or 0 when it is out of range
PyIndex(index, n) ==
    IF index >= 0 /\ index < n THEN index + 1
    ELSE IF index < 0 /\ index + n >= 0 THEN index + n + 1
    ELSE 0

\* BatchedImages.__getitem__(index)
getitem(self, index) ==
    LET k == PyIndex(index, Len(self._image_sizes))
        d == PyIndex(index, self._data.shape[1])
    IN  IF k = 0 \/ d = 0
        THEN [v |-> <<>>, err |-> "IndexError"]
        ELSE [v |-> ItemView(self._data, d, self._image_sizes[k][1],
                             self._image_sizes[k][2]),
              err |-> "none"]

\* BatchedImages.replace(data)
replace(self, data) ==
    LET e == _check_data_mask(data, self._mask)
    IN  IF e # "none"
        THEN [r |-> None, err |-> e]
        ELSE BatchedImages(data, Some(self._image_sizes), Some(self._mask), FALSE)

\* BatchedSequences(data, sizes, mask, check_validity=False): the slots of
\* the structure of sequences
BatchedSequences(data, sizes, mask) ==
    [_data |-> data, _sizes |-> sizes, _mask |-> mask]

\* fault injection: the pixels are flattened column by column
to_sequences_ColumnMajor(self) ==
    LET B == self._data.shape[1]
        C == self._data.shape[2]
        H == self._data.shape[3]
        W == self._data.shape[4]
        data == Tensor(<<B, H * W, C>>, self._data.dtype, self._data.device,
                       [i \in 1..B |-> [p \in 1..(H * W) |-> [c \in 1..C |->
                           self._data.data[i][c][((p - 1) % H) + 1][((p - 1) \div H) + 1]]]])
        mask == Tensor(<<B, H * W>>, self._mask.dtype, self._mask.device,
                       [i \in 1..B |-> [p \in 1..(H * W) |->
                           self._mask.data[i][((p - 1) % H) + 1][((p - 1) \div H) + 1]]])
        sizes == [i \in 1..Len(self._image_sizes) |->
                    self._image_sizes[i][1] * self._image_sizes[i][2]]
    IN  BatchedSequences(data, sizes, mask)

\* BatchedImages.to_sequences()
to_sequences(self) ==
    LET B == self._data.shape[1]
        C == self._data.shape[2]
        H == self._data.shape[3]
        W == self._data.shape[4]
        \* self._data.flatten(2).permute(0, 2, 1)
        flat == [i \in 1..B |-> [c \in 1..C |-> [p \in 1..(H * W) |->
                    self._data.data[i][c][((p - 1) \div W) + 1][((p - 1) % W) + 1]]]]
        data == Tensor(<<B, H * W, C>>, self._data.dtype, self._data.device,
                       [i \in 1..B |-> [p \in 1..(H * W) |-> [c \in 1..C |->
                           flat[i][c][p]]]])
        \* self._mask.flatten(1)
        MH == self._mask.shape[2]
        MW == self._mask.shape[3]
        mask == Tensor(<<self._mask.shape[1], MH * MW>>, self._mask.dtype,
                       self._mask.device,
                       [i \in 1..self._mask.shape[1] |-> [p \in 1..(MH * MW) |->
                           self._mask.data[i][((p - 1) \div MW) + 1][((p - 1) % MW) + 1]]])
        sizes == [i \in 1..Len(self._image_sizes) |->
                    self._image_sizes[i][1] * self._image_sizes[i][2]]
    IN  BatchedSequences(data, sizes, mask)

\* the device a tensor is on after Tensor.to(device): "cuda" is the current
\* cuda device, cuda:0
Placed(device) ==
    IF device = "cuda" THEN "cuda:0" ELSE device

\* BatchedImages.to(device); same tells that self is returned.  A tensor's
\* device carries its index, so torch.device("cuda") equals no tensor's device
to(self, device) ==
    IF self._data.device = device
    THEN [same |-> TRUE, r |-> None, err |-> "none"]
    ELSE [same |-> FALSE, err |-> "none",
          r |-> BatchedImages([self._data EXCEPT !.device = Placed(device)],
                              Some(self._image_sizes),
                              Some([self._mask EXCEPT !.device = Placed(device)]),
                              FALSE).r]

-----------------------------------------------------------------------------
(* Calls on BatchedImages.  batches[b] is the structure with reference b;  *)
(* a call that returns a structure returns its reference in ret.r, a call  *)
(* that returns tensors returns them in ret.v.                             *)

\* the return of a constructor or method that gives a new structure
ReturnBatched(op, self, args, res) ==
    /\ ncalls < limit
    /\ batches' = IF res.err = "none" THEN Append(batches, res.r[1]) ELSE batches
    /\ ret' = [op |-> op, self |-> self, other |-> 0, args |-> args,
               r |-> IF res.err = "none" THEN Len(batches) + 1 ELSE 0,
               v |-> <<>>, err |-> res.err]
    /\ ncalls' = ncalls + 1
    /\ UNCHANGED <<objs, bufs, limit, images, graphs, layer, frame>>

\* the return of a method that gives tensors
ReturnTensors(op, self, args, res) ==
    /\ ncalls < limit
    /\ ret' = [op |-> op, self |-> self, other |-> 0, args |-> args, r |-> 0,
               v |-> res.v, err |-> res.err]
    /\ ncalls' = ncalls + 1
    /\ UNCHANGED <<objs, bufs, limit, images, batches, graphs, layer, frame>>

Construct(data, image_sizes, mask, check_validity) ==
    ReturnBatched("__init__", 0, <<data, image_sizes, mask, check_validity>>,
                  BatchedImages(data, image_sizes, mask, check_validity))

Unbatch(b) ==
    ReturnTensors("unbatch", b, <<>>, unbatch(batches[b]))

GetItem(b, index) ==
    ReturnTensors("__getitem__", b, <<index>>, getitem(batches[b], index))

Replace(b, data) ==
    ReturnBatched("replace", b, <<data>>, replace(batches[b], data))

ToSequences(b) ==
    ReturnTensors("to_sequences", b, <<>>, [v |-> to_sequences(batches[b]), err |-> "none"])

To(b, device) ==
    LET res == to(batches[b], device)
    IN  IF res.same
        THEN /\ ncalls < limit
             /\ ret' = [op |-> "to", self |-> b, other |-> 0, args |-> <<device>>,
                        r |-> b, v |-> <<>>, err |-> "none"]
             /\ ncalls' = ncalls + 1
             /\ UNCHANGED <<objs, bufs, limit, images, batches, graphs, layer, frame>>
        ELSE ReturnBatched("to", b, <<device>>, res)

-----------------------------------------------------------------------------
(* SpecBatched: sequences of up to MaxOps calls; a structure returned by   *)
(* batch or by the constructor is the receiver of later calls.             *)

\* number of calls explored by the specification of BatchedImages calls
MaxOps == 2

\* a float32 tensor of shape (B, C, H, W) with all entries different; tag
\* tells two tensors of one shape apart
Data(B, C, H, W, device, tag) ==
    Tensor(<<B, C, H, W>>, "float32", device,
           [i \in 1..B |-> [c \in 1..C |-> [r \in 1..H |-> [col \in 1..W |->
               10000 * tag + Pixel(i, c, r, col)]]]])

\* the mask whose item i is False on the top-left sizes[i] region only
TopLeftMask(sizes, H, W, dtype, device) ==
    Tensor(<<Len(sizes), H, W>>, dtype, device,
           [i \in 1..Len(sizes) |-> [r \in 1..H |-> [col \in 1..W |->
               ~(r <= sizes[i][1] /\ col <= sizes[i][2])]]])

\* lists of one or two one-channel images, square and not
BatchedLists ==
    { [i \in 1..Len(hw) |-> Image(i, <<1, hw[i][1], hw[i][2]>>, "float32", dev)] :
        hw \in {<<<<1, 2>>>>, <<<<2, 1>>, <<1, 2>>>>, <<<<2, 2>>, <<1, 1>>>>,
                <<<<0, 2>>, <<1, 1>>>>},
        dev \in Devices }

\* image sizes for a batch of one 2 x 2 item and of two 2 x 3 items
SizeTuples(B) ==
    IF B = 1
    THEN {<<<<2, 2>>>>, <<<<1, 2>>>>, <<<<2, 1>>>>}
    ELSE {<<<<2, 3>>, <<1, 2>>>>, <<<<2, 1>>, <<1, 3>>>>}

\* constructor arguments <<data, image_sizes, mask>>: data alone, with
\* sizes, with the top-left mask of those sizes, and with both
ConstructorArgs ==
    UNION { LET W == B + 1
                data == Data(B, 1, 2, W, "cpu", 0)
            IN  {<<data, None, None>>} \cup
                UNION { { <<data, Some(sz), None>>,
                          <<data, None, Some(TopLeftMask(sz, 2, W, "bool", "cpu"))>>,
                          <<data, Some(sz), Some(TopLeftMask(sz, 2, W, "bool", "cpu"))>> } :
                        sz \in SizeTuples(B) } : B \in 1..2 }

\* new data for replace: of the receiver's shape, with one dimension more or
\* larger, and on another device
ReplaceData(self) ==
    LET B == self._data.shape[1]
        C == self._data.shape[2]
        H == self._data.shape[3]
        W == self._data.shape[4]
        dev == self._data.device
    IN  { Data(B, C, H, W, dev, 1), Data(B, C + 1, H, W, dev, 1),
          Data(B + 1, C, H, W, dev, 1), Data(B, C, H + 1, W, dev, 1),
          Data(B, C, H, W + 1, dev, 1),
          Data(B, C, H, W, CHOOSE d \in Devices : d # dev, 1),
          Tensor(<<B, H, W>>, "float32", dev, Full3(<<B, H, W>>, 1)) }

Indices ==
    (0 - 1)..2

\* device arguments of to
DeviceNames ==
    {"cpu", "cuda", "cuda:0"}

InitBatched ==
    /\ images \in BatchedLists
    /\ batches = <<>>
    /\ graphs = <<>>
    /\ layer = <<>>
    /\ frame = <<>>
    /\ objs = <<>>
    /\ bufs = <<>>
    /\ ret = NoCall
    /\ ncalls = 0
    /\ limit = MaxOps

NextBatched ==
    \/ \E padding_value \in PaddingValues : Batch(padding_value)
    \/ \E a \in ConstructorArgs : Construct(a[1], a[2], a[3], TRUE)
    \/ \E b \in 1..Len(batches) : Unbatch(b)
    \/ \E b \in 1..Len(batches), index \in Indices : GetItem(b, index)
    \/ \E b \in 1..Len(batches) : \E data \in ReplaceData(batches[b]) : Replace(b, data)
    \/ \E b \in 1..Len(batches) : ToSequences(b)
    \/ \E b \in 1..Len(batches), device \in DeviceNames : To(b, device)

SpecBatched ==
    InitBatched /\ [][NextBatched]_vars

-----------------------------------------------------------------------------
(* SpecConstruct: one call of the constructor, with and without validity   *)
(* check, on image sizes and masks that fit the data and that do not.      *)

\* image sizes for a batch of B items of 2 x (B + 1) pixels
ConstructSizes(B) ==
    SizeTuples(B) \cup {[i \in 1..B |-> <<2, B + 1>>], [i \in 1..B |-> <<1, B>>]}

\* a mask of B items of H x W pixels that is True on the last pixel only
LastPixelMask(B, H, W) ==
    Tensor(<<B, H, W>>, "bool", "cpu",
           [i \in 1..B |-> [r \in 1..H |-> [col \in 1..W |-> r = H /\ col = W]]])

\* a mask of B items of H x W pixels that is False on the last row only
LastRowMask(B, H, W) ==
    Tensor(<<B, H, W>>, "bool", "cpu",
           [i \in 1..B |-> [r \in 1..H |-> [col \in 1..W |-> r # H]]])

\* masks for data of B items of 2 x (B + 1) pixels: the top-left masks of
\* the sizes, masks that are not top-left, and top-left masks of another
\* batch size, height, width, device and dtype (the entries 1 and 0 of a
\* uint8 mask are written TRUE and FALSE)
ConstructMasks(B) ==
    LET W == B + 1
    IN  UNION { { TopLeftMask(sz, 2, W, "bool", "cpu"),
                  TopLeftMask(sz, 2, W, "bool", "cuda:0"),
                  TopLeftMask(sz, 2, W, "uint8", "cpu"),
                  TopLeftMask(sz, 3, W, "bool", "cpu"),
                  TopLeftMask(sz, 2, W + 1, "bool", "cpu"),
                  TopLeftMask(sz \o <<<<2, W>>>>, 2, W, "bool", "cpu") } :
                sz \in ConstructSizes(B) }
        \cup {LastPixelMask(B, 2, W), LastRowMask(B, 2, W)}

ConstructInputs ==
    UNION { { <<Data(B, 1, 2, B + 1, "cpu", 0), sz, m>> :
                sz \in {None} \cup {Some(x) : x \in ConstructSizes(B)},
                m \in {None} \cup {Some(x) : x \in ConstructMasks(B)} } : B \in 1..2 }

InitConstruct ==
    /\ images = <<>>
    /\ batches = <<>>
    /\ graphs = <<>>
    /\ layer = <<>>
    /\ frame = <<>>
    /\ objs = <<>>
    /\ bufs = <<>>
    /\ ret = NoCall
    /\ ncalls = 0
    /\ limit = 1

NextConstruct ==
    \E a \in ConstructInputs, check_validity \in BOOLEAN :
        Construct(a[1], a[2], a[3], check_validity)

SpecConstruct ==
    InitConstruct /\ [][NextConstruct]_vars

-----------------------------------------------------------------------------
(* Properties of the methods of BatchedImages.                             *)

\* structure b is what batch returns for the list of images
BatchOfImages(b) ==
    /\ b \in 1..Len(batches)
    /\ \E padding_value \in PaddingValues :
          batch(images, padding_value) = [r |-> Some(batches[b]), err |-> "none"]

\* C11: on the structure batch returns for a list of images, unbatch returns
\* a tuple of the same length whose i-th element has the shape and the
\* values of image i, and indexing with i returns the same tensor, the i-th
\* element of unbatch().
C11_UnbatchInvertsBatch ==
    BatchOfImages(ret.self) =>
        /\ ret.op = "unbatch" =>
              /\ ret.err = "none"
              /\ Len(ret.v) = Len(images)
              /\ \A i \in 1..Len(images) :
                    /\ ret.v[i].shape = images[i].shape
                    /\ ret.v[i].data = images[i].data
        /\ ret.op = "__getitem__" =>
              \A i \in 1..Len(images) :
                  ret.args[1] \in {i - 1, i - 1 - Len(images)} =>
                      /\ ret.err = "none"
                      /\ ret.v = images[i]
                      /\ ret.v = unbatch(batches[ret.self]).v[i]

\* two images of 2 x 1 and 1 x 2, padded to 2 x 2, come back unpadded
C11_Witness ==
    /\ Called("unbatch")
    /\ BatchOfImages(ret.self)
    /\ batches[ret.self]._data.shape = <<2, 1, 2, 2>>
    /\ Len(ret.v) = 2
    /\ ret.v[1].shape = <<1, 2, 1>> /\ ret.v[2].shape = <<1, 1, 2>>
    /\ ret.v[1].data = <<<<<<Pixel(1, 1, 1, 1)>>, <<Pixel(1, 1, 2, 1)>>>>>>
    /\ ret.v[2].data = <<<<<<Pixel(2, 1, 1, 1), Pixel(2, 1, 1, 2)>>>>>>

\* item by item, the mask of structure s is False exactly on the top-left
\* region that image_sizes names
MaskAgrees(s) ==
    /\ Len(s._image_sizes) = s._mask.shape[1]
    /\ \A i \in 1..Len(s._image_sizes) :
          \A r \in 1..s._mask.shape[2], col \in 1..s._mask.shape[3] :
              s._mask.data[i][r][col] =
                  ~(r <= s._image_sizes[i][1] /\ col <= s._image_sizes[i][2])

\* C13: in every structure obtained from batch, from the constructor (with
\* neither argument, with image_sizes, with a top-left mask, or with both
\* and check_validity=True) and from any later replace or to, the mask of
\* item i is False exactly on the top-left image_sizes[i] region.
C13_MaskAgreesWithSizes ==
    \A b \in 1..Len(batches) : MaskAgrees(batches[b])

\* the mask is not the complement of the top-left image_sizes regions of
\* the data's items, or is not a bool tensor on the data's device
IncompatibleMask(data, image_sizes, mask) ==
    \/ mask.shape # <<data.shape[1], data.shape[3], data.shape[4]>>
    \/ mask.device # data.device
    \/ mask.dtype # "bool"
    \/ Len(image_sizes) # mask.shape[1]
    \/ \E i \in 1..Len(image_sizes) :
          \E r \in 1..mask.shape[2], col \in 1..mask.shape[3] :
              mask.data[i][r][col] #
                  ~(r <= image_sizes[i][1] /\ col <= image_sizes[i][2])

\* C14: given both image_sizes and mask with check_validity=True, the
\* constructor raises a ValueError exactly when they are incompatible: it
\* accepts every mask that is the complement of the top-left image_sizes
\* regions (on the data's device, of dtype bool and of the data's batch and
\* spatial dimensions) and rejects every other.
C14_RaisesIffIncompatible ==
    (ret.op = "__init__" /\ ret.args[2] # None /\ ret.args[3] # None /\ ret.args[4]) =>
        /\ ret.err # "none" <=> IncompatibleMask(ret.args[1], ret.args[2][1], ret.args[3][1])
        /\ ret.err # "none" =>
              ret.err \in {"ValueError: The image_sizes and mask are incompatible.",
                           "ValueError: The data and mask must be on the same device.",
                           "ValueError: The mask must be of dtype bool.",
                           "ValueError: The data and mask are incompatible."}

\* C15: replace(data) raises a ValueError when the batch dimension or the
\* spatial dimensions of data differ from the mask's, whatever the channel
\* dimension, and otherwise returns a new structure with this data and the
\* receiver's mask and image_sizes; the receiver, like every other
\* structure, is unchanged in both cases.
C15_Replace ==
    [][(ret'.op = "replace" /\ ncalls' = ncalls + 1) =>
          LET self == batches[ret'.self]
              data == ret'.args[1]
              differ == \/ Len(data.shape) # 4
                        \/ data.shape[1] # self._mask.shape[1]
                        \/ data.shape[3] # self._mask.shape[2]
                        \/ data.shape[4] # self._mask.shape[3]
          IN  /\ SubSeq(batches', 1, Len(batches)) = batches
              /\ IF differ
                 THEN /\ ret'.err = "ValueError: The data and mask are incompatible."
                      /\ batches' = batches
                 ELSE /\ ret'.err = "none"
                      /\ ret'.r = Len(batches) + 1
                      /\ Len(batches') = Len(batches) + 1
                      /\ batches'[ret'.r] = [_data |-> data,
                                             _image_sizes |-> self._image_sizes,
                                             _mask |-> self._mask]]_vars

\* the data of a padded batch of two images is replaced by data of two
\* channels
C15_Witness ==
    /\ Called("replace")
    /\ ret.r # ret.self
    /\ batches[ret.self]._data.shape = <<2, 1, 2, 2>>
    /\ ret.args[1].shape = <<2, 2, 2, 2>>
    /\ batches[ret.r]._data = ret.args[1]
    /\ batches[ret.r]._mask = batches[ret.self]._mask
    /\ batches[ret.r]._image_sizes = <<<<2, 1>>, <<1, 2>>>>

\* C16: to_sequences is a row-major reshape: with rows r and columns c
\* counted from 0 and Wmax the width of the batch, entry [i, r * Wmax + c, ch]
\* of the sequence data is entry [i, ch, r, c] of the image data, entry
\* [i, r * Wmax + c] of the sequence mask is entry [i, r, c] of the image
\* mask, the length of sequence i is h_i * w_i, and no structure changes.
C16_ToSequences ==
    [][(ret'.op = "to_sequences" /\ ncalls' = ncalls + 1) =>
          LET self == batches[ret'.self]
              seq == ret'.v
              B == self._data.shape[1]
              C == self._data.shape[2]
              Hmax == self._data.shape[3]
              Wmax == self._data.shape[4]
          IN  /\ batches' = batches
              /\ ret'.err = "none"
              /\ seq._data.shape = <<B, Hmax * Wmax, C>>
              /\ HasShape(seq._data.data, <<B, Hmax * Wmax, C>>)
              /\ seq._mask.shape = <<B, Hmax * Wmax>>
              /\ HasShape(seq._mask.data, <<B, Hmax * Wmax>>)
              /\ \A i \in 1..B, r \in 0..(Hmax - 1), c \in 0..(Wmax - 1) :
                    /\ \A ch \in 1..C :
                          seq._data.data[i][r * Wmax + c + 1][ch] =
                              self._data.data[i][ch][r + 1][c + 1]
                    /\ seq._mask.data[i][r * Wmax + c + 1] = self._mask.data[i][r + 1][c + 1]
              /\ Len(seq._sizes) = Len(self._image_sizes)
              /\ \A i \in 1..Len(self._image_sizes) :
                    seq._sizes[i] = self._image_sizes[i][1] * self._image_sizes[i][2]]_vars

\* a batch of two 2 x 3 items of sizes 2 x 1 and 1 x 3 becomes sequences
\* of six pixels with lengths 2 and 3
C16_Witness ==
    /\ Called("to_sequences")
    /\ batches[ret.self]._data.shape = <<2, 1, 2, 3>>
    /\ batches[ret.self]._image_sizes = <<<<2, 1>>, <<1, 3>>>>
    /\ ret.v._data.shape = <<2, 6, 1>>
    /\ ret.v._data.data[1][4] = <<Pixel(1, 1, 2, 1)>>
    /\ ret.v._mask.data[1] = <<FALSE, TRUE, TRUE, FALSE, TRUE, TRUE>>
    /\ ret.v._sizes = <<2, 3>>

\* C17: in every structure reached by batch, constructor calls, replace
\* and to, the data and the mask are on the same device; to(d) returns the
\* receiver itself when it is already on d, and otherwise a structure with
\* data and mask on d and the receiver's image_sizes.
C17_OneDevice ==
    /\ \A b \in 1..Len(batches) : batches[b]._data.device = batches[b]._mask.device
    /\ ret.op = "to" =>
          LET self == batches[ret.self]
              d == Placed(ret.args[1])
          IN  /\ ret.err = "none"
              /\ IF self._data.device = d /\ self._mask.device = d
                 THEN ret.r = ret.self
                 ELSE /\ batches[ret.r]._data.device = d
                      /\ batches[ret.r]._mask.device = d
                      /\ batches[ret.r]._image_sizes = self._image_sizes

-----------------------------------------------------------------------------
(* GraphAttention.  A graph is the record of its node count, its node      *)
(* features (one row of rationals per node), the 2 x E indices of its      *)
(* coalesced sparse adjacency matrix (nodes counted from 0) and its edge   *)
(* features (None, or one row per edge).  attn_proj and the attention      *)
(* logits are in units of ln 2, so that exp(logit) is the exact rational   *)
(* 2^logit.  Dropout is the identity (evaluation mode).                    *)

RECURSIVE RSum(_)
\* Tensor.sum over a sequence of rationals
RSum(q) ==
    IF Len(q) = 0 THEN R(0) ELSE RAdd(Head(q), RSum(Tail(q)))

RECURSIVE Pow2(_)
\* 2^k for k >= 0
Pow2(k) ==
    IF k = 0 THEN 1 ELSE 2 * Pow2(k - 1)

\* the positions of a sequence whose entry is x, in increasing order
RECURSIVE Positions(_, _)
Positions(q, x) ==
    IF Len(q) = 0 THEN <<>>
    ELSE LET front == Positions(SubSeq(q, 1, Len(q) - 1), x)
         IN  IF q[Len(q)] = x THEN Append(front, Len(q)) ELSE front

\* the parameters nn.Linear(in_features, out_features, bias) is initialised
\* with: weights 1 and -1 and, with bias, biases 1 and -1, chosen by seed
nn_Linear(in_features, out_features, bias, seed) ==
    [in_features |-> in_features,
     out_features |-> out_features,
     weight |-> [o \in 1..out_features |-> [i \in 1..in_features |->
                    R(IF (o + i + seed) % 2 = 0 THEN 1 ELSE 0 - 1)]],
     bias |-> [o \in 1..out_features |->
                    IF bias THEN R(IF (o + seed) % 2 = 0 THEN 1 ELSE 0 - 1) ELSE R(0)]]

\* F.linear(x, weight, bias) on one row x of in_features entries
Linear(lin, x) ==
    [o \in 1..lin.out_features |->
        RAdd(RSum([i \in 1..lin.in_features |-> RMul(lin.weight[o][i], x[i])]),
             lin.bias[o])]

\* nn.LeakyReLU(negative_slope)
leaky_relu(negative_slope, x) ==
    IF x[1] >= 0 THEN x ELSE RMul(negative_slope, x)

\* the default negative_slope, 0.2
NegativeSlope ==
    <<1, 5>>

\* GraphAttention.__init__ of models/gahoi/_decoder.py ("models") and of
\* tasks/hoic/models/gahoi/_decoder.py ("tasks"); edge_dim and hidden_dim
\* are None or Some(value); the result r is Some(module) or None with the
\* error raised
GraphAttention(variant, node_dim, edge_dim, hidden_dim, share_weights, bias, num_heads,
               seed) ==
    LET hidden == IF hidden_dim = None THEN node_dim ELSE hidden_dim[1]
        \* width of the projections that are summed into the hidden layer
        width == IF variant = "models" THEN hidden ELSE hidden * num_heads
        ni_proj == nn_Linear(node_dim, width, bias, seed)
        \* models: node_dim + edge_dim if edge_dim is not None else 0
        message_in == IF variant = "models"
                      THEN (IF edge_dim # None THEN node_dim + edge_dim[1] ELSE 0)
                      ELSE node_dim + (IF edge_dim # None THEN edge_dim[1] ELSE 0)
    IN  IF (IF variant = "models" THEN hidden ELSE node_dim) % num_heads # 0
        THEN [r |-> None, err |-> "ValueError: must be divisible by num_heads"]
        ELSE [err |-> "none",
              r |-> Some(
                [variant |-> variant,
                 num_heads |-> num_heads,
                 head_dim |-> (IF variant = "models" THEN hidden ELSE node_dim) \div num_heads,
                 hidden_dim |-> hidden,
                 ni_proj |-> ni_proj,
                 nj_proj |-> IF share_weights THEN ni_proj
                             ELSE nn_Linear(node_dim, width, bias, seed + 1),
                 e_proj |-> IF edge_dim = None THEN None
                            ELSE Some(nn_Linear(edge_dim[1], width, bias, seed)),
                 negative_slope |-> NegativeSlope,
                 \* torch.randn(num_heads, head_dim or hidden_dim), in units of ln 2
                 attn_proj |-> [h \in 1..num_heads |->
                                  [k \in 1..(IF variant = "models"
                                             THEN hidden \div num_heads ELSE hidden) |->
                                      R(IF (h + k + seed) % 2 = 0 THEN 5 ELSE 0 - 5)]],
                 message_proj |-> nn_Linear(message_in, node_dim, bias, seed),
                 out_proj |-> nn_Linear(node_dim, node_dim, bias, seed + 1)])]

\* scatter_softmax(src, index, dim=0) of deepsight.ops.geometric: for every
\* column of src, the softmax over the rows that share an index
scatter_softmax(src, index) ==
    LET group(e) == Positions(index, index[e])
        low(e, h) == Min({src[g][h][1] : g \in {group(e)[n] : n \in 1..Len(group(e))}})
        exp(g, e, h) == Pow2(src[g][h][1] - low(e, h))
    IN  [e \in 1..Len(src) |-> [h \in 1..Len(src[e]) |->
            Rat(exp(e, e, h),
                SumSeq([n \in 1..Len(group(e)) |-> exp(group(e)[n], e, h)]))]]

\* scatter_sum(src, index, dim=0, dim_output_size): row n of the output is
\* the sum of the rows of src whose index is n; rows without such a row of
\* src are zero; width is the length of a row
scatter_sum(src, index, dim_output_size, width) ==
    [n \in 1..dim_output_size |-> [k \in 1..width |->
        RSum([m \in 1..Len(Positions(index, n - 1)) |->
                 src[Positions(index, n - 1)[m]][k]])]]

\* the output size of scatter_sum when none is given: the indices are all
\* it can go by
DefaultOutputSize(index) ==
    Max({index[e] : e \in 1..Len(index)}) + 1

\* fault injection: the edges are grouped by their second index
GroupingIndex_Columns(g) ==
    g.indices[2]

\* graphs.adjacency_matrix().indices()[0]: the index that groups the edges
\* in scatter_softmax and scatter_sum
GroupingIndex(g) ==
    g.indices[1]

\* fault injection: the messages are built from the grouping endpoint
MessageSource_Rows(g) ==
    g.indices[1]

\* graphs.adjacency_matrix().indices()[1]: the endpoint whose features nj
\* make the message of an edge
MessageSource(g) ==
    g.indices[2]

\* fault injection: absent edge features are an error for every layer
MissingEdgeFeatures_AnyLayer(self, g) ==
    g.edge_features = None

\* the layer has an edge projection and the graph has no edge features
MissingEdgeFeatures(self, g) ==
    self.e_proj # None /\ g.edge_features = None

\* GraphAttention.forward(graphs) up to the attention scores: the error
\* raised, or the scores
Scores(self, g) ==
    LET index == GroupingIndex(g)
        E == Len(index)
        ni == [e \in 1..E |-> g.node_features[g.indices[1][e] + 1]]
        nj == [e \in 1..E |-> g.node_features[MessageSource(g)[e] + 1]]
        ni_hidden == [e \in 1..E |-> Linear(self.ni_proj, ni[e])]
        nj_hidden == [e \in 1..E |-> Linear(self.nj_proj, nj[e])]
        e_hidden == [e \in 1..E |-> Linear(self.e_proj[1], g.edge_features[1][e])]
        sum == [e \in 1..E |-> [k \in 1..Len(ni_hidden[e]) |->
                   IF self.e_proj # None
                   THEN RAdd(RAdd(ni_hidden[e][k], nj_hidden[e][k]), e_hidden[e][k])
                   ELSE RAdd(ni_hidden[e][k], nj_hidden[e][k])]]
        hidden == [e \in 1..E |-> [k \in 1..Len(sum[e]) |->
                      leaky_relu(self.negative_slope, sum[e][k])]]
        \* hidden.view(-1, num_heads, D); (hidden * attn_proj).sum(dim=-1)
        D == Len(self.attn_proj[1])
        attn_logits == [e \in 1..E |-> [h \in 1..self.num_heads |->
                           RSum([k \in 1..D |->
                                    RMul(hidden[e][(h - 1) * D + k], self.attn_proj[h][k])])]]
    IN  IF MissingEdgeFeatures(self, g)
        THEN [err |-> "ValueError: edge features must be provided.",
              attn_logits |-> <<>>, attn_scores |-> <<>>]
        ELSE [err |-> "none", attn_logits |-> attn_logits,
              attn_scores |-> scatter_softmax(attn_logits, index)]

\* GraphAttention.forward(graphs) from the attention scores on: the error
\* raised, or the node features of the graph returned
Aggregate(self, g, attn_scores) ==
    LET index == GroupingIndex(g)
        E == Len(index)
        nj == [e \in 1..E |-> g.node_features[MessageSource(g)[e] + 1]]
        cat == [e \in 1..E |-> IF g.edge_features # None
                               THEN nj[e] \o g.edge_features[1][e] ELSE nj[e]]
        projected == [e \in 1..E |-> Linear(self.message_proj, cat[e])]
        \* messages.view(-1, num_heads, head_dim) * attn_scores.unsqueeze(-1)
        messages == [e \in 1..E |-> [k \in 1..Len(projected[e]) |->
                        RMul(projected[e][k],
                             attn_scores[e][((k - 1) \div self.head_dim) + 1])]]
        rows == IF self.variant = "models" THEN DefaultOutputSize(index)
                ELSE g.num_nodes
        summed == scatter_sum(messages, index, rows, self.num_heads * self.head_dim)
    IN  IF \E e \in 1..E : Len(cat[e]) # self.message_proj.in_features
        THEN [err |-> "RuntimeError: mat1 and mat2 shapes cannot be multiplied",
              messages |-> <<>>, summed |-> <<>>, out |-> <<>>]
        ELSE [err |-> "none", messages |-> projected, summed |-> summed,
              out |-> [n \in 1..rows |-> Linear(self.out_proj, summed[n])]]

\* GraphAttention.forward(graphs)
forward(self, g) ==
    LET s == Scores(self, g)
        a == Aggregate(self, g, s.attn_scores)
    IN  IF s.err # "none"
        THEN [err |-> s.err, attn_logits |-> <<>>, attn_scores |-> <<>>,
              messages |-> <<>>, summed |-> <<>>, out |-> <<>>]
        ELSE [err |-> a.err, attn_logits |-> s.attn_logits,
              attn_scores |-> s.attn_scores, messages |-> a.messages,
              summed |-> a.summed, out |-> a.out]

\* the call layer(graphs): ret.v holds the attention logits and scores, the
\* projected messages and their weighted sums that were computed, and the
\* node features of the graph returned
Forward ==
    LET res == forward(layer, graphs)
    IN  /\ ncalls < limit
        /\ ret' = [op |-> "forward", self |-> 0, other |-> 0, args |-> <<>>, r |-> 0,
                   v |-> [attn_logits |-> res.attn_logits,
                          attn_scores |-> res.attn_scores, messages |-> res.messages,
                          summed |-> res.summed, out |-> res.out],
                   err |-> res.err]
        /\ ncalls' = ncalls + 1
        /\ UNCHANGED <<objs, bufs, limit, images, batches, graphs, layer, frame>>

-----------------------------------------------------------------------------
(* SpecGraph: one application of a GraphAttention layer to a graph.        *)

\* width of the node features
NodeDim == 2

\* width of the edge features
EdgeDim == 1

\* the adjacency indices <<rows, columns>> of graphs of N nodes: a node
\* with two edges and two nodes without, all nodes with edges, a single
\* edge, and a graph whose highest-indexed node is in no edge
EdgeLists ==
    {[N |-> 3, indices |-> <<<<0, 0>>, <<1, 2>>>>],
     [N |-> 3, indices |-> <<<<0, 1, 1, 2>>, <<1, 0, 2, 1>>>>],
     [N |-> 2, indices |-> <<<<1>>, <<0>>>>],
     [N |-> 4, indices |-> <<<<0, 0, 2>>, <<1, 2, 0>>>>]}

\* node features: the same row for every node, or rows that differ
NodeFeatures(N, kind) ==
    [n \in 1..N |-> [k \in 1..NodeDim |->
        IF kind = "equal" THEN R(1) ELSE R(((n + k) % 3) - 1)]]

InputGraphs ==
    { [num_nodes |-> el.N,
       node_features |-> NodeFeatures(el.N, kind),
       indices |-> el.indices,
       edge_features |-> IF with_edges
                         THEN Some([e \in 1..Len(el.indices[1]) |->
                                      [k \in 1..EdgeDim |-> R(e % 2)]])
                         ELSE None] :
        el \in EdgeLists, kind \in {"equal", "varied"}, with_edges \in BOOLEAN }

\* the layers: both versions, with and without edge projection, shared
\* weights and bias, of one and two heads; the earlier version with the
\* default hidden_dim
Layers ==
    { GraphAttention(c[1], NodeDim, edge_dim, c[2], share_weights, bias, num_heads,
                     seed).r[1] :
        c \in {<<"models", None>>, <<"tasks", None>>, <<"tasks", Some(1)>>},
        edge_dim \in {None, Some(EdgeDim)},
        share_weights \in BOOLEAN, bias \in BOOLEAN,
        num_heads \in {1, 2}, seed \in {0, 1} }

InitGraph ==
    /\ graphs \in InputGraphs
    /\ layer \in Layers
    /\ frame = <<>>
    /\ images = <<>>
    /\ batches = <<>>
    /\ objs = <<>>
    /\ bufs = <<>>
    /\ ret = NoCall
    /\ ncalls = 0
    /\ limit = 1

NextGraph ==
    Forward

SpecGraph ==
    InitGraph /\ [][NextGraph]_vars

-----------------------------------------------------------------------------
(* Properties of GraphAttention.                                           *)

\* the edges (positions in the edge list) grouped under node n, counted from 0
EdgesOf(n) ==
    {e \in 1..Len(graphs.indices[1]) : graphs.indices[1][e] = n}

\* the logits with those of the edges outside the group of node n changed,
\* each by a different amount
LogitsChangedOutside(n) ==
    [e \in 1..Len(ret.v.attn_logits) |-> [h \in 1..Len(ret.v.attn_logits[e]) |->
        IF e \in EdgesOf(n) THEN ret.v.attn_logits[e][h]
        ELSE RAdd(ret.v.attn_logits[e][h], R(e))]]

\* C18: for every head, the attention scores of the edges that share a
\* grouping node index are the softmax of those edges' logits alone: they
\* sum to 1 for every node with such an edge, they are in the ratio of the
\* exponentials of their logits, two edges with equal logits get 1/2 each,
\* a single edge gets 1, and changing the logits of the edges grouped under
\* other nodes does not change them.
C18_SegmentSoftmax ==
    (ret.op = "forward" /\ ret.v.attn_scores # <<>>) =>
        LET logits == ret.v.attn_logits
            scores == ret.v.attn_scores
        IN  /\ Len(scores) = Len(graphs.indices[1])
            /\ \A n \in 0..(graphs.num_nodes - 1), h \in 1..layer.num_heads :
                  LET group == EdgesOf(n)
                  IN  group # {} =>
                        /\ RSum([m \in 1..Cardinality(group) |->
                                    scores[Positions(graphs.indices[1], n)[m]][h]]) = R(1)
                        /\ \A e, f \in group :
                              logits[e][h][1] <= logits[f][h][1] =>
                                  /\ logits[e][h][2] = 1 /\ logits[f][h][2] = 1
                                  /\ scores[f][h] =
                                        RMul(scores[e][h],
                                             R(Pow2(logits[f][h][1] - logits[e][h][1])))
                        /\ \A e \in group : scores[e][h][1] > 0
                        /\ Cardinality(group) = 1 => \A e \in group : scores[e][h] = R(1)
                        /\ (Cardinality(group) = 2
                            /\ \A e, f \in group : logits[e][h] = logits[f][h])
                              => \A e \in group : scores[e][h] = <<1, 2>>
                        /\ \A e \in group :
                              scatter_softmax(LogitsChangedOutside(n),
                                              graphs.indices[1])[e][h] = scores[e][h]

\* two heads on the graph 0 -> 1, 1 -> 0, 1 -> 2, 2 -> 1 with equal node
\* features: the edge of node 0 gets 1, the two edges of node 1 get 1/2
\* each, and the scores differ from those of a softmax over all edges
C18_Witness ==
    /\ Called("forward")
    /\ layer.num_heads = 2
    /\ graphs.indices = <<<<0, 1, 1, 2>>, <<1, 0, 2, 1>>>>
    /\ ret.v.attn_logits[2] = ret.v.attn_logits[3]
    /\ ret.v.attn_scores[1] = <<R(1), R(1)>>
    /\ ret.v.attn_scores[2] = <<<<1, 2>>, <<1, 2>>>>
    /\ ret.v.attn_scores[3] = <<<<1, 2>>, <<1, 2>>>>

\* node n (counted from 0) is in no edge of the graph
Isolated(n) ==
    \A e \in 1..Len(graphs.indices[1]) :
        graphs.indices[1][e] # n /\ graphs.indices[2][e] # n

\* the graph has edge features exactly when the layer projects them
EdgeFeaturesFit ==
    (layer.e_proj # None) <=> (graphs.edge_features # None)

\* C19: the node features GraphAttention returns have one row per node of
\* the graph, also when the highest-indexed nodes are in no edge, and the
\* row of a node that receives no edges is all zeros of the node feature
\* width; there is no error and no missing row.
C19_RowPerNode ==
    (ret.op = "forward" /\ EdgeFeaturesFit) =>
        /\ ret.err = "none"
        /\ Len(ret.v.out) = graphs.num_nodes
        /\ \A n \in 1..graphs.num_nodes :
              Isolated(n - 1) => ret.v.out[n] = [k \in 1..NodeDim |-> R(0)]

\* C20: a layer with an edge projection applied to a graph without edge
\* features raises ValueError("edge features must be provided.") and
\* returns no node features; no other layer and no other graph gives this
\* error.
C20_EdgeFeaturesRequired ==
    ret.op = "forward" =>
        /\ (layer.e_proj # None /\ graphs.edge_features = None)
              <=> ret.err = "ValueError: edge features must be provided."
        /\ ret.err = "ValueError: edge features must be provided." =>
              /\ ret.v.out = <<>>
              /\ ret.v.attn_scores = <<>>

\* a layer with edge projection on a graph without edge features
C20_Witness ==
    /\ ret.op = "forward"
    /\ layer.e_proj # None
    /\ graphs.edge_features = None
    /\ ret.err = "ValueError: edge features must be provided."
    /\ ret.v.out = <<>>

-----------------------------------------------------------------------------
(* SpecMask: _compute_sizes_from_mask applied to a mask that               *)
(* _compute_mask_from_sizes built.                                         *)

\* tuples of one and two sizes (h, w) with 0 <= h <= H and 0 <= w <= W
SizesWithin(H, W) ==
    UNION { [1..B -> (0..H) \X (0..W)] : B \in 1..MaxImages }

\* _compute_sizes_from_mask(_compute_mask_from_sizes(sizes, H, W, device))
SizesOfMask(sizes, H, W) ==
    /\ ncalls < limit
    /\ ret' = [op |-> "_compute_sizes_from_mask", self |-> 0, other |-> 0,
               args |-> <<sizes, H, W>>, r |-> 0,
               v |-> _compute_sizes_from_mask(_compute_mask_from_sizes(sizes, H, W, "cpu")),
               err |-> "none"]
    /\ ncalls' = ncalls + 1
    /\ UNCHANGED <<objs, bufs, limit, images, batches, graphs, layer, frame>>

InitMask ==
    /\ images = <<>>
    /\ batches = <<>>
    /\ graphs = <<>>
    /\ layer = <<>>
    /\ frame = <<>>
    /\ objs = <<>>
    /\ bufs = <<>>
    /\ ret = NoCall
    /\ ncalls = 0
    /\ limit = 1

NextMask ==
    \E H \in 1..MaxSide, W \in 1..MaxSide : \E sizes \in SizesWithin(H, W) :
        SizesOfMask(sizes, H, W)

SpecMask ==
    InitMask /\ [][NextMask]_vars

\* C26: _compute_sizes_from_mask inverts _compute_mask_from_sizes: for all
\* sizes (h_i, w_i) within H x W, square or not, the sizes computed from the
\* mask of the sizes are the sizes.
C26_SizesFromMaskOfSizes ==
    ret.op = "_compute_sizes_from_mask" => ret.v = ret.args[1]

-----------------------------------------------------------------------------
(* Further properties of BoundingBoxes.                                    *)

\* C30: horizontal_flip is an involution that commutes with the conversion
\* to XYXY: flipping the result again gives the receiver's coordinates; the
\* result keeps the receiver's format, normalized flag, image_size, widths
\* and heights; and to_xyxy then horizontal_flip gives the same boxes as
\* horizontal_flip then to_xyxy, with x1' = W - x2 and x2' = W - x1, where
\* W is 1 for normalized boxes and the image width otherwise.
C30_FlipInvolution ==
    Called("horizontal_flip") =>
        LET again == horizontal_flip(Here, ret.r)
            flip_xyxy == to_xyxy(Here, ret.r)
            xyxy_flip == Then(to_xyxy(Here, ret.self), horizontal_flip)
            flipped == coordinates(xyxy_flip.h, xyxy_flip.r)
            W == IF Receiver.normalized THEN R(1) ELSE R(Receiver.image_size[2])
            before == bufs[Receiver.buf]
            after == bufs[Result.buf]
            Width(row, format) == RSub(Corners(row, format)[3], Corners(row, format)[1])
            Height(row, format) == RSub(Corners(row, format)[4], Corners(row, format)[2])
        IN  /\ again.err = "none"
            /\ coordinates(again.h, again.r) = before
            /\ Result.format = Receiver.format
            /\ Result.normalized = Receiver.normalized
            /\ Result.image_size = Receiver.image_size
            /\ Len(after) = Len(before)
            /\ \A i \in 1..Len(before) :
                  /\ Width(after[i], Result.format) = Width(before[i], Receiver.format)
                  /\ Height(after[i], Result.format) = Height(before[i], Receiver.format)
                  /\ flipped[i] =
                        LET c == Corners(before[i], Receiver.format)
                        IN  <<RSub(W, c[3]), c[2], RSub(W, c[1]), c[4]>>
            /\ xyxy_flip.h.objs[xyxy_flip.r].format = "xyxy"
            /\ flip_xyxy.h.objs[flip_xyxy.r].format = "xyxy"
            /\ coordinates(flip_xyxy.h, flip_xyxy.r) = flipped

\* a box of CXCYWH format, not normalized, that is not centred in its image
C30_Witness ==
    /\ Called("horizontal_flip")
    /\ Receiver.format = "cxcywh" /\ ~Receiver.normalized
    /\ Result.format = "cxcywh"
    /\ bufs[Result.buf] # bufs[Receiver.buf]
    /\ bufs[Result.buf][1][1] = RSub(R(Receiver.image_size[2]), bufs[Receiver.buf][1][1])
    /\ bufs[Receiver.buf][1][3] # R(0)

-----------------------------------------------------------------------------
(* Further properties of GraphAttention.                                   *)

\* the width of the message of an edge: the features of a node, followed by
\* the features of the edge if the graph has them
MessageWidth ==
    NodeDim + (IF graphs.edge_features # None THEN EdgeDim ELSE 0)

\* C28: the input width of the message projection is the width of the
\* message of an edge, node_dim for a layer without edge dimension on a
\* graph without edge features and node_dim + edge_dim for a layer with
\* edge dimension on a graph with edge features, so that the projection
\* applies; and the projected message, of width node_dim, splits into
\* num_heads parts of head_dim entries.
C28_MessageWidths ==
    (ret.op = "forward" /\ EdgeFeaturesFit) =>
        /\ layer.message_proj.in_features = MessageWidth
        /\ ret.err = "none"
        /\ layer.message_proj.out_features = NodeDim
        /\ layer.num_heads * layer.head_dim = NodeDim
        /\ \A e \in 1..Len(ret.v.messages) : Len(ret.v.messages[e]) = NodeDim

\* C29: the weighted messages are summed into the node that groups the
\* softmax, row 0 of the adjacency indices, and the message of an edge is
\* the projection of the features of its other endpoint, row 1 (followed
\* by the edge features); so the sum of every node with an edge is, per
\* head, a combination of the projected messages of its edges with weights
\* that are positive and sum to 1.
C29_ConvexCombination ==
    Called("forward") =>
        LET scores == ret.v.attn_scores
            messages == ret.v.messages
            HeadOf(k) == ((k - 1) \div layer.head_dim) + 1
            Message(e) ==
                graphs.node_features[graphs.indices[2][e] + 1]
                    \o (IF graphs.edge_features # None
                        THEN graphs.edge_features[1][e] ELSE <<>>)
        IN  /\ \A e \in 1..Len(messages) :
                  messages[e] = Linear(layer.message_proj, Message(e))
            /\ \A n \in 0..(graphs.num_nodes - 1) :
                  LET edges == Positions(graphs.indices[1], n)
                  IN  Len(edges) > 0 =>
                        /\ n + 1 <= Len(ret.v.summed)
                        /\ \A k \in 1..NodeDim :
                              /\ \A m \in 1..Len(edges) : scores[edges[m]][HeadOf(k)][1] > 0
                              /\ RSum([m \in 1..Len(edges) |-> scores[edges[m]][HeadOf(k)]])
                                    = R(1)
                              /\ ret.v.summed[n + 1][k] =
                                    RSum([m \in 1..Len(edges) |->
                                            RMul(scores[edges[m]][HeadOf(k)],
                                                 messages[edges[m]][k])])

\* the earlier version with two heads on a node with two edges of unequal
\* scores, whose messages differ
C29_Witness ==
    /\ Called("forward")
    /\ layer.variant = "models" /\ layer.num_heads = 2
    /\ graphs.indices = <<<<0, 0>>, <<1, 2>>>>
    /\ ret.v.attn_scores[1][1] # ret.v.attn_scores[2][1]
    /\ ret.v.messages[1] # ret.v.messages[2]
    /\ ret.v.summed[1][1] = RAdd(RMul(ret.v.attn_scores[1][1], ret.v.messages[1][1]),
                                 RMul(ret.v.attn_scores[2][1], ret.v.messages[2][1]))

-----------------------------------------------------------------------------
(* CrossAttention.  Tensors are nested sequences of rationals.  An entry   *)
(* can also be minus infinity or NaN.  The keys are in units of            *)
(* sqrt(head_dim) ln 2 and the position bias in units of ln 2, so that the *)
(* scaled logits are in units of ln 2 and their exponentials are exact.    *)
(* Dropout is the identity (evaluation mode).                              *)

\* -torch.inf
NegInf ==
    <<0 - 1, 0>>

\* the float that is not a number
NaN ==
    <<0, 0>>

\* the float sum a + b of a finite number, minus infinity or NaN and a
\* finite number or NaN
XAdd(a, b) ==
    IF a = NaN \/ b = NaN THEN NaN
    ELSE IF a = NegInf \/ b = NegInf THEN NegInf
    ELSE RAdd(a, b)

\* the float product a * b of finite numbers and NaN
XMul(a, b) ==
    IF a = NaN \/ b = NaN THEN NaN ELSE RMul(a, b)

RECURSIVE XSum(_)
\* Tensor.sum over a sequence of floats
XSum(q) ==
    IF Len(q) = 0 THEN R(0) ELSE XAdd(Head(q), XSum(Tail(q)))

\* F.linear on one row whose entries may be NaN
XLinear(lin, x) ==
    [o \in 1..lin.out_features |->
        XAdd(XSum([i \in 1..lin.in_features |-> XMul(lin.weight[o][i], x[i])]),
             lin.bias[o])]

\* nn.ReLU
relu(x) ==
    IF x[1] >= 0 THEN x ELSE R(0)

\* torch.softmax(logits, dim=-1) on one row of logits that are finite or
\* minus infinity.  A row of minus infinities gives NaN, or zeros in the
\* versions of torch whose scaled_dot_product_attention guards that case:
\* safe tells which.
softmax(logits, safe) ==
    LET finite == {k \in 1..Len(logits) : logits[k] # NegInf}
        low == Min({logits[k][1] : k \in finite})
        exp(k) == IF k \in finite THEN Pow2(logits[k][1] - low) ELSE 0
        total == SumSeq([k \in 1..Len(logits) |-> exp(k)])
    IN  IF finite = {}
        THEN [k \in 1..Len(logits) |-> IF safe THEN R(0) ELSE NaN]
        ELSE [k \in 1..Len(logits) |-> Rat(exp(k), total)]

\* CrossAttention.__init__ of models/gahoi/_decoder.py ("models") and of
\* tasks/hoic/models/gahoi/_decoder.py ("tasks"): Some(module), or None
\* with the error raised
CrossAttention(variant, embed_dim, cpb_hidden_dim, bias, num_heads, seed) ==
    IF embed_dim % num_heads # 0
    THEN [r |-> None, err |-> "ValueError: embed_dim must be divisible by num_heads"]
    ELSE [err |-> "none",
          r |-> Some(
            [variant |-> variant,
             embed_dim |-> embed_dim,
             num_heads |-> num_heads,
             head_dim |-> embed_dim \div num_heads,
             q_proj |-> nn_Linear(embed_dim, embed_dim, bias, seed),
             kv_proj |-> nn_Linear(embed_dim, embed_dim * 2, bias, seed + 1),
             cpb_mlp |-> IF variant = "models"
                         THEN <<nn_Linear(embed_dim, cpb_hidden_dim, bias, seed),
                                nn_Linear(cpb_hidden_dim, embed_dim, bias, seed + 1)>>
                         ELSE <<nn_Linear(2, cpb_hidden_dim, bias, seed),
                                nn_Linear(cpb_hidden_dim, num_heads, bias, seed + 1)>>,
             out_proj |-> nn_Linear(embed_dim, embed_dim, bias, seed)])]

\* self.cpb_mlp(relative_distances) and its rearrangement to (B, H, Q, K):
\* the error raised, or the bias
PositionBias(self, relative_distances) ==
    LET B == Len(relative_distances)
        Q == Len(relative_distances[1])
        K == Len(relative_distances[1][1])
        first == self.cpb_mlp[1]
        second == self.cpb_mlp[2]
        mlp(x) == Linear(second, [j \in 1..first.out_features |-> relu(Linear(first, x)[j])])
        cpb == [b \in 1..B |-> [q \in 1..Q |-> [k \in 1..K |->
                   mlp(relative_distances[b][q][k])]]]
    IN  IF first.in_features # 2
        THEN [err |-> "RuntimeError: mat1 and mat2 shapes cannot be multiplied",
              cpb |-> <<>>]
        ELSE IF second.out_features # self.num_heads
        THEN [err |-> "RuntimeError: shape is invalid for input of size", cpb |-> <<>>]
        ELSE [err |-> "none",
              \* cpb.permute(0, 3, 1, 2)
              cpb |-> [b \in 1..B |-> [h \in 1..self.num_heads |-> [q \in 1..Q |->
                          [k \in 1..K |-> cpb[b][q][k][h]]]]]]

\* CrossAttention.forward(graph, images, relative_distances): nodes is
\* graph.node_features(BatchMode.STACK), of shape (B, Q, D); patches is the
\* structure of sequences, of which the earlier version is given the data
\* only.  The result holds the position bias as added to the logits, the
\* attention weights and the node features of the graph returned.
cross_forward(self, nodes, patches, relative_distances, safe) ==
    LET B == Len(relative_distances)
        Q == Len(relative_distances[1])
        K == Len(relative_distances[1][1])
        hd == self.head_dim
        proj_q == [b \in 1..B |-> [i \in 1..Q |-> Linear(self.q_proj, nodes[b][i])]]
        kv == [b \in 1..B |-> [k \in 1..K |-> Linear(self.kv_proj, patches._data.data[b][k])]]
        \* kv.view(B, K, 2, H, hd): entry (t, h, d) is at t * H * hd + h * hd + d
        key(b, h, k, d) == kv[b][k][(h - 1) * hd + d]
        value(b, h, k, d) == kv[b][k][self.num_heads * hd + (h - 1) * hd + d]
        query(b, h, i, d) == proj_q[b][i][(h - 1) * hd + d]
        bias == PositionBias(self, relative_distances)
        \* tasks: cpb.masked_fill_(images.mask[:, None, None], -torch.inf)
        att_mask == [b \in 1..B |-> [h \in 1..self.num_heads |-> [i \in 1..Q |->
                        [k \in 1..K |->
                            IF self.variant = "tasks" /\ patches._mask.data[b][k]
                            THEN NegInf ELSE bias.cpb[b][h][i][k]]]]]
        attn_logits == [b \in 1..B |-> [h \in 1..self.num_heads |-> [i \in 1..Q |->
                           [k \in 1..K |->
                               XAdd(att_mask[b][h][i][k],
                                    RSum([d \in 1..hd |->
                                             RMul(query(b, h, i, d), key(b, h, k, d))]))]]]]
        attn_scores == [b \in 1..B |-> [h \in 1..self.num_heads |-> [i \in 1..Q |->
                           softmax(attn_logits[b][h][i], safe)]]]
        \* attn_scores @ v, of shape (B, H, Q, hd)
        attended(b, h, i, d) ==
            XSum([k \in 1..K |-> XMul(attn_scores[b][h][i][k], value(b, h, k, d))])
        \* models: .transpose(1, 2).contiguous().view(B, Q, H * hd);
        \* tasks: .reshape(B, Q, H * hd) of the tensor as it is, whose entry
        \* (h, i, d) is at (h * Q + i) * hd + d
        out == [b \in 1..B |-> [i \in 1..Q |-> [j \in 1..(self.num_heads * hd) |->
                   IF self.variant = "models"
                   THEN attended(b, ((j - 1) \div hd) + 1, i, ((j - 1) % hd) + 1)
                   ELSE LET at == (i - 1) * self.num_heads * hd + (j - 1)
                        IN  attended(b, (at \div (Q * hd)) + 1,
                                     ((at % (Q * hd)) \div hd) + 1, (at % hd) + 1)]]]
    IN  IF bias.err # "none"
        THEN [err |-> bias.err, cpb |-> <<>>, attn_logits |-> <<>>,
              attn_scores |-> <<>>, out |-> <<>>]
        ELSE [err |-> "none", cpb |-> att_mask, attn_logits |-> attn_logits,
              attn_scores |-> attn_scores,
              out |-> [b \in 1..B |-> [i \in 1..Q |-> XLinear(self.out_proj, out[b][i])]]]

\* a call of CrossAttention.forward on the graph, the images and the
\* relative distances the caller holds
CrossForward ==
    LET res == cross_forward(layer, graphs.node_features, frame.images,
                             frame.relative_distances, frame.safe)
    IN  /\ ncalls < limit
        /\ ret' = [op |-> "CrossAttention.forward", self |-> 0, other |-> 0,
                   args |-> <<>>, r |-> 0,
                   v |-> [cpb |-> res.cpb, attn_logits |-> res.attn_logits,
                          attn_scores |-> res.attn_scores, out |-> res.out],
                   err |-> res.err]
        /\ ncalls' = ncalls + 1
        /\ UNCHANGED <<objs, bufs, limit, images, batches, graphs, layer, frame>>

-----------------------------------------------------------------------------
(* Specification of one call of CrossAttention.forward.                    *)

\* the pairs (embed_dim, num_heads) the constructor is called with
CrossDims ==
    {<<1, 1>>, <<2, 1>>, <<2, 2>>, <<1, 2>>}

\* the modules the constructor accepts
CrossLayers ==
    { c.r[1] :
        c \in { m \in { CrossAttention(variant, d[1], cpb_hidden_dim, bias, d[2], seed) :
                          variant \in {"models", "tasks"}, d \in CrossDims,
                          cpb_hidden_dim \in {1, 2}, bias \in BOOLEAN,
                          seed \in {0, 1} } : m.err = "none" } }

\* number of key positions of an item
NumKeys == 2

\* the padding masks of one item: no key, the last key or every key padded
KeyMasks ==
    { [k \in 1..NumKeys |-> k > valid] : valid \in {NumKeys, NumKeys - 1, 0} }

\* the sequences of image patches of embedding width D
PatchSequences(D) ==
    { BatchedSequences(
          Tensor(<<Len(masks), NumKeys, D>>, "float32", "cpu",
                 [b \in 1..Len(masks) |-> [k \in 1..NumKeys |-> [d \in 1..D |->
                     R(IF kind = "equal" THEN 1 ELSE (b + k + d) % 2)]]]),
          [b \in 1..Len(masks) |->
              Cardinality({k \in 1..NumKeys : ~masks[b][k]})],
          Tensor(<<Len(masks), NumKeys>>, "bool", "cpu", masks)) :
        masks \in UNION { [1..B -> KeyMasks] : B \in 1..MaxImages },
        kind \in {"equal", "varied"} }

\* the arguments of the call: node features (B, Q, D), patches and relative
\* distances (B, Q, K, 2), and the build of torch that runs it
CrossInputs(D) ==
    { [graph |-> [node_features |->
                     [b \in 1..Len(p._sizes) |-> [i \in 1..Q |-> [d \in 1..D |->
                         R((b + i + d) % 2)]]]],
       images |-> p,
       relative_distances |->
           [b \in 1..Len(p._sizes) |-> [i \in 1..Q |-> [k \in 1..NumKeys |->
               <<R(k - i), R(b - 1)>>]]],
       safe |-> safe] :
        p \in PatchSequences(D), Q \in {1, 2}, safe \in BOOLEAN }

InitCross ==
    /\ layer \in CrossLayers
    /\ \E in \in CrossInputs(layer.embed_dim) :
          /\ graphs = in.graph
          /\ frame = [images |-> in.images,
                      relative_distances |-> in.relative_distances,
                      safe |-> in.safe]
    /\ images = <<>>
    /\ batches = <<>>
    /\ objs = <<>>
    /\ bufs = <<>>
    /\ ret = NoCall
    /\ ncalls = 0
    /\ limit = 1

NextCross ==
    CrossForward

SpecCross ==
    InitCross /\ [][NextCross]_vars

-----------------------------------------------------------------------------
(* Properties of CrossAttention, checked on SpecCross.                     *)

\* C25: the network of the position bias takes the two components of a
\* relative distance and yields num_heads values for each pair of a query
\* and a key, so that the call succeeds and the bias added to the logits has
\* shape (B, num_heads, Q, K), for every embed_dim and num_heads the
\* constructor accepts.
C25_PositionBiasShape ==
    ret.op = "CrossAttention.forward" =>
        LET rd == frame.relative_distances
        IN  /\ layer.cpb_mlp[1].in_features = 2
            /\ layer.cpb_mlp[2].out_features = layer.num_heads
            /\ ret.err = "none"
            /\ Len(ret.v.cpb) = Len(rd)
            /\ \A b \in 1..Len(rd) :
                  /\ Len(ret.v.cpb[b]) = layer.num_heads
                  /\ \A h \in 1..layer.num_heads :
                        /\ Len(ret.v.cpb[b][h]) = Len(rd[b])
                        /\ \A i \in 1..Len(rd[b]) :
                              Len(ret.v.cpb[b][h][i]) = Len(rd[b][i])

\* the key positions of item b that are padding
PaddedKeys(b) ==
    {k \in 1..NumKeys : frame.images._mask.data[b][k]}

\* C21: a padded key has logit minus infinity once the position bias is
\* added, and for every item, head and query with a valid key the weights of
\* the padded keys are 0 and the weights of the valid keys sum to 1.
C21_PaddedKeysIgnored ==
    ret.op = "CrossAttention.forward" /\ ret.err = "none" =>
        \A b \in 1..Len(ret.v.attn_scores) :
            \A h \in 1..Len(ret.v.attn_scores[b]) :
                \A i \in 1..Len(ret.v.attn_scores[b][h]) :
                    /\ \A k \in PaddedKeys(b) : ret.v.attn_logits[b][h][i][k] = NegInf
                    /\ PaddedKeys(b) # 1..NumKeys =>
                          /\ \A k \in PaddedKeys(b) :
                                ret.v.attn_scores[b][h][i][k] = R(0)
                          /\ RSum([k \in 1..NumKeys |->
                                      IF k \in PaddedKeys(b) THEN R(0)
                                      ELSE ret.v.attn_scores[b][h][i][k]]) = R(1)

\* C22: a call on an item whose keys are all padding is rejected with an
\* error or returns node features none of which is NaN.
C22_NoNaN ==
    /\ ret.op = "CrossAttention.forward"
    /\ \E b \in 1..Len(frame.images._sizes) : PaddedKeys(b) = 1..NumKeys
    => \/ ret.err # "none"
       \/ \A b \in 1..Len(ret.v.out) : \A i \in 1..Len(ret.v.out[b]) :
              \A d \in 1..Len(ret.v.out[b][i]) : ret.v.out[b][i][d] # NaN

-----------------------------------------------------------------------------
(* DecoderLayer and Decoder.  The claims about them concern which value    *)
(* flows into which sublayer, so the output of a learned sublayer is kept  *)
(* as a term: the sublayer, the layer it belongs to and its arguments.     *)

\* the value sublayer name of decoder layer index gives on args
Term(name, index, args) ==
    [f |-> name, layer |-> index, args |-> args]

\* the node features of an input graph
InputFeatures(tag) ==
    Term("input", 0, <<tag>>)

\* a + b on tensors
TensorAdd(a, b) ==
    Term("add", 0, <<a, b>>)

\* DecoderLayer.__init__: the submodules it registers, by attribute name
DecoderLayer(variant, index) ==
    [variant |-> variant,
     index |-> index,
     modules |-> IF variant = "models"
                 THEN {"layernorm1", "gat", "layernorm2", "cross_attn", "layernorm3", "ff"}
                 ELSE {"layernorm1", "gat", "layernorm2", "cross_attn", "layernorm3",
                       "ffn"}]

\* nn.Module.__getattr__ on the submodules a forward uses, in order: the
\* error of the first that is not registered
MissingAttribute(self, names) ==
    LET missing == {i \in 1..Len(names) : names[i] \notin self.modules}
    IN  IF missing = {} THEN "none"
        ELSE "AttributeError: 'DecoderLayer' object has no attribute"

\* DecoderLayer.forward(graph, images, relative_coords): the graph
\* returned, and the images and distances it gave to cross_attn
layer_forward(self, graph, patches, relative_coords) ==
    LET sub(name, x) == Term(name, self.index, <<x>>)
        nodes == graph.node_features
        \* tasks/hoic/models/gahoi/_decoder.py
        t_1 == TensorAdd(nodes, sub("gat", sub("layernorm1", nodes)))
        t_2 == TensorAdd(t_1, sub("cross_attn", sub("layernorm2", t_1)))
        t_norm == sub("layernorm3", t_2)
        t_3 == TensorAdd(sub("ffn", t_norm), t_norm)
        \* models/gahoi/_decoder.py
        m_1 == TensorAdd(nodes, sub("gat", sub("layernorm1", nodes)))
        m_2 == TensorAdd(m_1, sub("cross_attn", sub("layer_norm2", m_1)))
        m_3 == TensorAdd(m_2, sub("ff", sub("layer_norm3", m_2)))
        err == MissingAttribute(self,
                   IF self.variant = "models"
                   THEN <<"layernorm1", "gat", "layer_norm2", "cross_attn",
                          "layer_norm3", "ff">>
                   ELSE <<"layernorm1", "gat", "layernorm2", "cross_attn",
                          "layernorm3", "ffn">>)
    IN  [err |-> err,
         graph |-> IF err # "none" THEN None
                   ELSE Some([graph EXCEPT !.node_features =
                                 IF self.variant = "models" THEN m_3 ELSE t_3]),
         passed |-> [images |-> patches, relative_distances |-> relative_coords]]

\* Decoder.__init__
Decoder(variant, num_layers) ==
    [variant |-> variant,
     layers |-> [l \in 1..num_layers |-> DecoderLayer(variant, l)]]

\* torch.sign(d) * torch.log(1 + torch.abs(d)): the sign and the argument
\* of the logarithm
SignLog(d) ==
    <<IF d[1] > 0 THEN 1 ELSE IF d[1] < 0 THEN 0 - 1 ELSE 0,
      RAdd(R(1), IF d[1] < 0 THEN RNeg(d) ELSE d)>>

\* _compute_relative_distances(boxes, images), of shape (B, Q, HW, 2).  The
\* later version is given the structure of images, the earlier one its
\* data; boxes holds the denormalized CXCYWH coordinates of the boxes.
_compute_relative_distances(variant, boxes, imgs) ==
    LET data == IF variant = "models" THEN imgs ELSE imgs._data
        B == data.shape[1]
        H == data.shape[3]
        W == data.shape[4]
        row(k) == ((k - 1) \div W) + 1
        col(k) == ((k - 1) % W) + 1
        \* tasks: not_mask.cumsum(2) - 1 and not_mask.cumsum(1) - 1, stacked and
        \* viewed as (B, 1, HW, 2)
        x(b, r, c) == Cardinality({cc \in 1..c : ~imgs._mask.data[b][r][cc]}) - 1
        y(b, r, c) == Cardinality({rr \in 1..r : ~imgs._mask.data[b][rr][c]}) - 1
        \* models: torch.cartesian_prod(torch.arange(W), torch.arange(H))
        patch_cx(b, k) ==
            IF variant = "models"
            THEN <<R((k - 1) \div H), R((k - 1) % H)>>
            ELSE <<R(x(b, row(k), col(k))), R(y(b, row(k), col(k)))>>
    IN  [b \in 1..B |-> [q \in 1..Len(boxes[b]) |-> [k \in 1..(H * W) |->
            [j \in 1..2 |-> SignLog(RSub(patch_cx(b, k)[j], boxes[b][q][j]))]]]]

\* images.flatten(start_dim=2).transpose(1, 2), of shape (B, K, D)
FlattenedImages(data) ==
    Tensor(<<data.shape[1], data.shape[3] * data.shape[4], data.shape[2]>>,
           data.dtype, data.device,
           [b \in 1..data.shape[1] |->
               [k \in 1..(data.shape[3] * data.shape[4]) |->
                   [c \in 1..data.shape[2] |->
                       data.data[b][c][((k - 1) \div data.shape[4]) + 1]
                                      [((k - 1) % data.shape[4]) + 1]]]])

\* Decoder.forward up to the loop: the relative distances and the keys
ComputeRelativeDistances ==
    /\ frame.pc = "start"
    /\ frame' = [frame EXCEPT
           !.pc = "loop",
           !.relative_distances =
               _compute_relative_distances(layer.variant, frame.boxes,
                   IF layer.variant = "models" THEN batches[1]._data ELSE batches[1]),
           !.computed = frame.computed + 1,
           !.patches = IF layer.variant = "models"
                       THEN FlattenedImages(batches[1]._data)
                       ELSE to_sequences(batches[1])]
    /\ UNCHANGED <<objs, bufs, ret, ncalls, limit, images, batches, graphs, layer>>

\* one iteration of the loop of Decoder.forward:
\* graphs = layer(graphs, patches, relative_distances), and in the later
\* version outputs.append(graphs)
ApplyLayer ==
    /\ frame.pc = "loop"
    /\ frame.l <= Len(layer.layers)
    /\ LET res == layer_forward(layer.layers[frame.l], graphs, frame.patches,
                                frame.relative_distances)
           call == [layer |-> frame.l, graph |-> graphs,
                    images |-> res.passed.images,
                    relative_distances |-> res.passed.relative_distances]
       IN  IF res.err # "none"
           THEN /\ ret' = [op |-> "Decoder.forward", self |-> 0, other |-> 0,
                           args |-> <<>>, r |-> 0, v |-> <<>>, err |-> res.err]
                /\ frame' = [frame EXCEPT !.pc = "done",
                                          !.calls = Append(frame.calls, call)]
                /\ UNCHANGED graphs
           ELSE /\ graphs' = res.graph[1]
                /\ frame' = [frame EXCEPT
                       !.l = frame.l + 1,
                       !.calls = Append(frame.calls, call),
                       !.outputs = IF layer.variant = "models" THEN frame.outputs
                                   ELSE Append(frame.outputs, res.graph[1])]
                /\ UNCHANGED ret
    /\ UNCHANGED <<objs, bufs, ncalls, limit, images, batches, layer>>

\* the return of Decoder.forward: outputs in the later version, graphs in
\* the earlier one
Return ==
    /\ frame.pc = "loop"
    /\ frame.l > Len(layer.layers)
    /\ ret' = [op |-> "Decoder.forward", self |-> 0, other |-> 0, args |-> <<>>,
               r |-> 0,
               v |-> IF layer.variant = "models" THEN graphs ELSE frame.outputs,
               err |-> "none"]
    /\ frame' = [frame EXCEPT !.pc = "done"]
    /\ UNCHANGED <<objs, bufs, ncalls, limit, images, batches, graphs, layer>>

-----------------------------------------------------------------------------
(* Specification of one call of Decoder.forward.                           *)

\* largest number of layers of a decoder
MaxLayers == 3

\* the batches of images: one and two items, square and not, padded and not
DecoderImages ==
    { batch([i \in 1..Len(hw) |-> Image(i, <<1, hw[i][1], hw[i][2]>>, "float32", "cpu")],
            0).r[1] :
        hw \in {<<<<1, 2>>>>, <<<<2, 1>>>>, <<<<2, 2>>>>, <<<<2, 3>>>>,
                <<<<2, 2>>, <<1, 2>>>>, <<<<1, 2>>, <<2, 1>>>>} }

\* denormalized CXCYWH coordinates of Q boxes for each of B items
DecoderBoxes(B) ==
    { [b \in 1..B |-> [q \in 1..Q |->
          <<IF kind = "corner" THEN R(0) ELSE Rat(q, 2), R(b - 1), R(1), R(1)>>]] :
        Q \in {1, 2}, kind \in {"corner", "inside"} }

InitDecoder ==
    /\ \E variant \in {"models", "tasks"}, num_layers \in 1..MaxLayers :
          layer = Decoder(variant, num_layers)
    /\ \E b \in DecoderImages :
          /\ batches = <<b>>
          /\ \E boxes \in DecoderBoxes(Len(b._image_sizes)) :
                frame = [pc |-> "start", boxes |-> boxes, relative_distances |-> None,
                         computed |-> 0, patches |-> None, l |-> 1, calls |-> <<>>,
                         outputs |-> <<>>]
    /\ graphs = [node_features |-> InputFeatures("x")]
    /\ images = <<>>
    /\ objs = <<>>
    /\ bufs = <<>>
    /\ ret = NoCall
    /\ ncalls = 0
    /\ limit = 1

NextDecoder ==
    \/ ComputeRelativeDistances
    \/ ApplyLayer
    \/ Return

SpecDecoder ==
    InitDecoder /\ [][NextDecoder]_vars

-----------------------------------------------------------------------------
(* Properties of the decoder, checked on SpecDecoder.                      *)

\* the features of key k of item b that the layers are given
KeyData(b, k) ==
    IF layer.variant = "models" THEN frame.patches.data[b][k]
    ELSE frame.patches._data.data[b][k]

\* C27: the relative distances are aligned with the keys: for a valid pixel
\* at row r and column c of a feature map of width W, entry r * W + c of
\* the distances of every box is computed from the patch coordinate
\* (x = c, y = r), and key r * W + c holds the features of that pixel.
C27_DistancesAlignedWithKeys ==
    frame.pc # "start" =>
        LET data == batches[1]._data
            W == data.shape[4]
        IN  \A b \in 1..data.shape[1] : \A r \in 0..(data.shape[3] - 1) :
                \A c \in 0..(W - 1) :
                    ~batches[1]._mask.data[b][r + 1][c + 1] =>
                        /\ \A ch \in 1..data.shape[2] :
                              KeyData(b, r * W + c + 1)[ch] = data.data[b][ch][r + 1][c + 1]
                        /\ \A q \in 1..Len(frame.boxes[b]) :
                              frame.relative_distances[b][q][r * W + c + 1] =
                                  <<SignLog(RSub(R(c), frame.boxes[b][q][1])),
                                    SignLog(RSub(R(r), frame.boxes[b][q][2]))>>

\* the graph that call l of a layer returned
LayerOutput(l) ==
    IF l < Len(frame.calls) THEN frame.calls[l + 1].graph ELSE graphs

\* x + sublayer(norm(x)) for sublayer name and normalisation norm of layer l
PreNormResidual(l, name, norm, x) ==
    TensorAdd(x, Term(name, l, <<Term(norm, l, <<x>>)>>))

\* C24: a decoder layer applies graph attention, cross-attention and the
\* feed-forward network as pre-norm residual sublayers: each adds the
\* sublayer of the normalised input to the input itself, so the node
\* features returned are x3 + ffn(layernorm3(x3)).
C24_PreNormResiduals ==
    \A l \in 1..Len(frame.calls) :
        LET self == layer.layers[l]
            x_1 == frame.calls[l].graph.node_features
            x_2 == PreNormResidual(l, "gat", "layernorm1", x_1)
            x_3 == PreNormResidual(l, "cross_attn", "layernorm2", x_2)
            ffn == IF "ffn" \in self.modules THEN "ffn" ELSE "ff"
            x_4 == PreNormResidual(l, ffn, "layernorm3", x_3)
        IN  /\ ~(l = Len(frame.calls) /\ ret.err # "none")
            /\ LayerOutput(l).node_features
                   \in {x_4, TensorAdd(x_4.args[2], x_4.args[1])}

\* C23: Decoder.forward computes the relative distances once, before the
\* first layer, and gives every layer that same tensor; the layers are
\* applied in order, each to the output of the one before, and the result
\* is the list of the num_layers graphs they returned, in order.
C23_LayersInOrder ==
    ret.op = "Decoder.forward" =>
        /\ ret.err = "none"
        /\ frame.computed = 1
        /\ frame.relative_distances =
               _compute_relative_distances(layer.variant, frame.boxes,
                   IF layer.variant = "models" THEN batches[1]._data ELSE batches[1])
        /\ Len(frame.calls) = Len(layer.layers)
        /\ Len(ret.v) = Len(layer.layers)
        /\ \A l \in 1..Len(frame.calls) :
              /\ frame.calls[l].layer = l
              /\ frame.calls[l].relative_distances = frame.relative_distances
              /\ frame.calls[l].graph =
                     IF l = 1 THEN [node_features |-> InputFeatures("x")]
                     ELSE ret.v[l - 1]
              /\ ret.v[l] =
                     layer_forward(layer.layers[l], frame.calls[l].graph,
                                   frame.calls[l].images,
                                   frame.calls[l].relative_distances).graph[1]

====
